---- MODULE Spec2Model ----
(***************************************************************************)
(* State-machine model of the DHT11 driver of home-monitor                 *)
(* (components/dht11/dht11.c): the single-wire protocol attempt, the       *)
(* retry loop with the last-known-good cache, and the formatted-string     *)
(* accessors.  Floating-point readings are kept in tenths (22.5 is 225):   *)
(* integer_byte + fractional_byte / 10.0 is 10 * integer_byte +            *)
(* fractional_byte tenths.                                                  *)
(***************************************************************************)
EXTENDS Integers, Sequences, FiniteSets, TLC

(***************************************************************************)
(* Program constants                                                       *)
(***************************************************************************)
DHT11_MAX_RETRIES == 3
DHT11_BIT_THRESHOLD == 50
PULSE_FLOOR == 15
PULSE_CEILING == 100
TEMP_BUFFER_MIN == 8
HUM_BUFFER_MIN == 6
FRAME_BYTES == 5
BITS_PER_BYTE == 8
DHT11_RESPONSE_TIMEOUT == 100
DHT11_BIT_TIMEOUT == 100
WIFI_RETRY_COUNT == 10

(***************************************************************************)
(* Bounds of the environment                                               *)
(***************************************************************************)
\* the sensor's checksum byte is off by 0..MaxChecksumSkew from the true sum
MaxChecksumSkew == 1
\* buffer sizes offered to the accessors are 0..MaxBufferSize
MaxBufferSize == 9
\* a wait for a pin level reports up to MaxElapsed microseconds
MaxElapsed == 101
\* one pass of the polling loop takes 1..MaxPollPeriod microseconds
MaxPollPeriod == 2
\* the WiFi task's loop is followed for MaxCycles transmission cycles
MaxCycles == 10
\* the event loop holds up to MaxEvents events that are not yet handled
MaxEvents == 2

VARIABLES
    last_reading,   \* static dht11_data_t last_reading (dht11.c:89)
    pin_mode,       \* direction of DHT11_DATA_PIN: "RESET", "OUTPUT_OD", "INPUT"
    pin_out,        \* output latch of DHT11_DATA_PIN (gpio_set_level)
    irq_enabled,    \* interrupts enabled on the executing core
    initialized,    \* dht11_init has returned ESP_OK at least once
    pc,             \* control position of the driver
    caller,         \* entry point of the running or latest call: "init", "read", "temp", "hum"
    attempt,        \* loop variable of dht11_read
    data,           \* *data, the reading the call hands back
    raw_data,       \* uint8_t raw_data[5] of the running attempt
    bit_idx,        \* number of bits read so far in the running attempt
    att_result,     \* return value of the last dht11_read_attempt
    att_err,        \* exit path the last attempt took ("ok" is the success path)
    read_ret,       \* return value of the last dht11_read
    ret,            \* return value of the last public call
    buffer,         \* the accessor's output string
    sensor_frame,   \* the frame the sensor transmits in the running attempt
    n_attempts,     \* history: attempts begun in the running dht11_read call
    fresh,          \* history: an attempt of the running call passed the checksum
    last_fail,      \* history: exit path of the latest failed attempt of the running call
    call_cache,     \* history: last_reading when the running call began
    last_good,      \* history: raw frame of the most recent attempt that got past the checksum
    prev_recovered, \* history: reading the previous dht11_read returned after a failed
                    \* attempt followed by a checksum-valid one (ZeroReading if none)
    gpio_config_ok, \* environment: gpio_config accepts the configuration dht11_init passes
    buffer_ok,      \* history: the latest accessor call got a non-NULL buffer of at
                    \* least the accessor's minimum size
    n_reads,        \* history: dht11_read calls made by the running or latest public call
    init_rets,      \* history: return values of the latest consecutive dht11_init calls
    init_cache,     \* history: last_reading when the latest dht11_init was called
    rb_waits,       \* read_bit alone: results of its three waits (NoWaits before a call)
    rb_result,      \* read_bit alone: its return value
    rb_prev,        \* read_bit alone: waits and return value of the call before
    main_pc,        \* position of app_main in system_init and system_start
    mutex,          \* shared_data.mutex: "NULL", "free", or the task that holds it
    sensor_pc,      \* position of sensor_task ("none": the task does not exist)
    wifi_pc,        \* position of wifi_task ("none": the task does not exist)
    shared_data,    \* static shared_sensor_data_t shared_data, without the mutex
    sensor_reading, \* sensor_task: dht11_data_t sensor_reading
    read_result,    \* sensor_task: esp_err_t read_result
    consecutive_failures, \* sensor_task: uint32_t consecutive_failures
    error_displayed,      \* sensor_task: bool error_displayed
    display,        \* what the screen shows
    wifi_data,      \* wifi_task: temperature and humidity of sensor_data_t wifi_data
    has_valid_data, \* wifi_task: bool has_valid_data
    acquired,       \* history: a dht11_read has been executed since power-on
    failed_step,    \* history: the step of system_init or system_start that failed
    take_failed,    \* history: a mutex take of sensor_task's running cycle timed out
    displayed,      \* history: sensor_task's running cycle has updated the display
    cycle_shared,   \* history: shared_data when sensor_task's running cycle began
    take_waits,     \* history: the block times passed to xSemaphoreTake so far
    sensor_copied,  \* sensor_task: fields moved so far inside its critical section
    wifi_copied,    \* wifi_task: fields moved so far inside its critical section
    last_data,      \* sensor_task: temperature and humidity of sensor_data_t last_data
    written,        \* history: the (temperature, humidity) pairs whose write to
                    \* shared_data has begun since power-on
    fail_streak,    \* history: dht11_read calls of sensor_task without a fresh valid
                    \* reading since the last one that gave one
    rd_pc,          \* termination: position of dht11_read with its polling loops
    rd_attempt,     \* termination: loop variable of dht11_read
    rd_phase,       \* termination: the wait of the attempt that is running
    rd_bits,        \* termination: bits read so far in the running attempt
    elapsed,        \* termination: esp_timer_get_time() - start_time of the wait
    wait_result,    \* termination: return value of the latest wait_for_pin_state
    rd_attempts,    \* history: attempts begun in the running or latest call
    current_status, \* static wifi_status_t current_status (wifi_manager.c:102)
    current_rssi,   \* static int8_t current_rssi (wifi_manager.c:111)
    retry_count,    \* static int retry_count (wifi_manager.c:120)
    event_bits,     \* the bits set in wifi_event_group: "CONNECTED", "FAIL"
    wifi_started,   \* WiFi driver: esp_wifi_start has been called
    link,           \* WiFi driver: the station is "down", "connecting" or "up"
    events,         \* WiFi driver: events posted to the event loop, oldest first
    api_pc,         \* the task that calls the WiFi manager: "uninit", "idle",
                    \* "connect_wait" inside xEventGroupWaitBits
    api_call,       \* history: the latest call of the WiFi manager that returned
    api_ret,        \* history: what that call returned
    rssi_ret,       \* history: what the latest wifi_manager_get_rssi returned
    status_at_ret,  \* history: current_status when the latest call returned
    send_null,      \* history: the latest wifi_manager_send_data got data == NULL
    disconnected_by_call, \* history: wifi_manager_disconnect has returned ESP_OK
                    \* and wifi_manager_connect has not been called since
    stopped_at,     \* history: where the tasks were, and who held the mutex,
                    \* when system_stop deleted them
    wt_pc,          \* wifi_task taken alone: "startup", then "loop"
    transmission_count, \* wifi_task: uint32_t transmission_count
    disconnection_time, \* wifi_task: uint32_t disconnection_time
    was_connected,  \* wifi_task: bool was_connected
    cycle_ready,    \* history: wifi_manager_is_ready() at the head of the latest cycle
    reconnect_called, \* history: the latest cycle called wifi_manager_reconnect
    send_called,    \* history: the latest cycle called wifi_manager_send_data
    not_ready_run,  \* history: the cycles in a row, up to the latest, that
                    \* found WiFi not ready
    seen_ready,     \* history: some cycle has found WiFi ready
    wifi_outcome    \* history: how safe_read_sensor_data ended in wifi_task's
                    \* running cycle: "valid", "invalid", "timeout", None before it

vars == <<last_reading, pin_mode, pin_out, irq_enabled, initialized, pc, caller,
          attempt, data, raw_data, bit_idx, att_result, att_err, read_ret, ret,
          buffer, sensor_frame, n_attempts, fresh, last_fail, call_cache,
          last_good, prev_recovered, gpio_config_ok, buffer_ok, n_reads,
          init_rets, init_cache, rb_waits, rb_result, rb_prev, main_pc, mutex,
          sensor_pc, wifi_pc, shared_data, sensor_reading, read_result,
          consecutive_failures, error_displayed, display, wifi_data,
          has_valid_data, acquired, failed_step, take_failed, displayed,
          cycle_shared, take_waits, sensor_copied, wifi_copied, last_data,
          written, fail_streak, rd_pc, rd_attempt, rd_phase, rd_bits, elapsed,
          wait_result, rd_attempts, current_status, current_rssi, retry_count,
          event_bits, wifi_started, link, events, api_pc, api_call, api_ret,
          rssi_ret, status_at_ret, send_null, disconnected_by_call,
          stopped_at, wt_pc, transmission_count, disconnection_time,
          was_connected, cycle_ready, reconnect_called, send_called,
          not_ready_run, seen_ready, wifi_outcome>>

(***************************************************************************)
(* Readings and frames                                                     *)
(***************************************************************************)
\* dht11_data_t with all fields zero: the initializer {0} and the reset at
\* the head of every attempt
ZeroReading == [temperature |-> 0, humidity |-> 0, valid |-> FALSE]

NoFrame == <<>>
ZeroFrame == <<0, 0, 0, 0, 0>>
None == "NONE"
NoWaits == <<>>

\* static shared_sensor_data_t shared_data = {0}, and what init_shared_data
\* writes: an invalid all-zero reading, no new data
ZeroShared == [data |-> ZeroReading, has_new_data |-> FALSE]

\* the two large lines of a screen nothing was drawn on
BlankScreen == <<"", "">>

\* sensor_data_t wifi_data = {0}: temperature and humidity in tenths
NoData == [temperature |-> 0, humidity |-> 0]

\* the four data bytes the sensor may have measured
DataQuads ==
    { <<41, 0, 22, 5>>, <<65, 0, 20, 0>>, <<0, 0, 0, 0>>,
      <<200, 56, 0, 0>>, <<255, 255, 255, 255>> }

ByteSum(q) == q[1] + q[2] + q[3] + q[4]

\* frames the sensor may transmit: correct and corrupted checksum bytes
SensorFrames ==
    { <<q[1], q[2], q[3], q[4], (ByteSum(q) + e) % 256>> :
        q \in DataQuads, e \in 0..MaxChecksumSkew }

\* high-pulse widths the line may show for a bit, in microseconds
PulseWidths == {14, 15, 27, 50, 51, 70, 100, 101}

(***************************************************************************)
(* Pure pieces of the driver                                               *)
(***************************************************************************)
\* CalculatedChecksum kept in an int: the sum is not reduced to 8 bits
CalculatedChecksumWide(raw) == raw[1] + raw[2] + raw[3] + raw[4]

\* uint8_t calculated_checksum = raw_data[0] + ... + raw_data[3]
CalculatedChecksum(raw) == (raw[1] + raw[2] + raw[3] + raw[4]) % 256

\* the attempt keeps the frame iff the calculated checksum equals raw_data[4]
ChecksumAccepts(raw) == CalculatedChecksum(raw) = raw[5]

\* ReadingOfFrame with the humidity and temperature bytes exchanged
ReadingOfFrameSwapped(raw) ==
    [temperature |-> 10 * raw[1] + raw[2],
     humidity    |-> 10 * raw[3] + raw[4],
     valid       |-> TRUE]

\* ReadingOfFrame that drops the fractional bytes
ReadingOfFrameIntegerOnly(raw) ==
    [temperature |-> 10 * raw[3],
     humidity    |-> 10 * raw[1],
     valid       |-> TRUE]

\* data->humidity, data->temperature, data->valid of an accepted frame, in tenths
ReadingOfFrame(raw) ==
    [temperature |-> 10 * raw[3] + raw[4],
     humidity    |-> 10 * raw[1] + raw[2],
     valid       |-> TRUE]

\* StaleCopy without data->valid = false
StaleCopyKeepsValid(r) == r

\* *data = last_reading; data->valid = false
StaleCopy(r) == [r EXCEPT !.valid = FALSE]

\* ReadBitValue with the threshold comparison written >=
ReadBitValueThresholdInclusive(low_wait, high_wait, high_time) ==
    IF low_wait < 0 THEN -1
    ELSE IF high_wait < 0 THEN -1
    ELSE IF high_time < 0 THEN -1
    ELSE IF high_time < PULSE_FLOOR \/ high_time > PULSE_CEILING THEN -1
    ELSE IF high_time >= DHT11_BIT_THRESHOLD THEN 1 ELSE 0

\* ReadBitValue without the check of the pulse width
ReadBitValueNoPlausibility(low_wait, high_wait, high_time) ==
    IF low_wait < 0 THEN -1
    ELSE IF high_wait < 0 THEN -1
    ELSE IF high_time < 0 THEN -1
    ELSE IF high_time > DHT11_BIT_THRESHOLD THEN 1 ELSE 0

\* read_bit: three waits (-1 is a timeout), then the plausibility check and
\* the threshold comparison; -1 on any failure
ReadBitValue(low_wait, high_wait, high_time) ==
    IF low_wait < 0 THEN -1
    ELSE IF high_wait < 0 THEN -1
    ELSE IF high_time < 0 THEN -1
    ELSE IF high_time < PULSE_FLOOR \/ high_time > PULSE_CEILING THEN -1
    ELSE IF high_time > DHT11_BIT_THRESHOLD THEN 1 ELSE 0

\* bit k (0 is the first to arrive) of a frame sent most significant bit first
FrameBit(frame, k) ==
    (frame[(k \div BITS_PER_BYTE) + 1]
        \div (2 ^ ((BITS_PER_BYTE - 1) - (k % BITS_PER_BYTE)))) % 2

\* StoreBit with the inner loop counting j upwards from 0
StoreBitLsbFirst(raw, k, bit) ==
    [raw EXCEPT ![(k \div BITS_PER_BYTE) + 1] =
        @ + bit * (2 ^ (k % BITS_PER_BYTE))]

\* raw_data[i] |= (bit << j) for the k-th bit read: i = k / 8, j = 7 - k % 8.
\* Bit j of raw_data[i] is still clear, so the OR adds bit * 2^j.
StoreBit(raw, k, bit) ==
    [raw EXCEPT ![(k \div BITS_PER_BYTE) + 1] =
        @ + bit * (2 ^ ((BITS_PER_BYTE - 1) - (k % BITS_PER_BYTE)))]

\* "%.1fC" of a value given in tenths
FormatTemperature(t) == ToString(t \div 10) \o "." \o ToString(t % 10) \o "C"

\* "%.0f" rounds to the nearest integer, an exact half to the even one
RoundTenths(h) ==
    LET q == h \div 10
        r == h % 10
    IN  IF r < 5 THEN q
        ELSE IF r > 5 THEN q + 1
        ELSE IF q % 2 = 0 THEN q ELSE q + 1

\* "%.0f%%" of a value given in tenths
FormatHumidity(h) == ToString(RoundTenths(h)) \o "%"

\* TemperatureString without the placeholder branch
TemperatureStringNoPlaceholder(r, d, cache) ==
    IF r = "ESP_OK" /\ d.valid THEN FormatTemperature(d.temperature)
    ELSE FormatTemperature(cache.temperature)

\* TemperatureArgsInvalid with the size comparison written <=
TemperatureArgsInvalidOffByOne(buffer_null, buffer_size) ==
    buffer_null \/ buffer_size <= TEMP_BUFFER_MIN

\* if (buffer == NULL || buffer_size < 8) of dht11_get_temperature_string
TemperatureArgsInvalid(buffer_null, buffer_size) ==
    buffer_null \/ buffer_size < TEMP_BUFFER_MIN

\* if (buffer == NULL || buffer_size < 6) of dht11_get_humidity_string
HumidityArgsInvalid(buffer_null, buffer_size) ==
    buffer_null \/ buffer_size < HUM_BUFFER_MIN

\* the three branches of dht11_get_temperature_string after dht11_read
TemperatureString(r, d, cache) ==
    IF r = "ESP_OK" /\ d.valid THEN FormatTemperature(d.temperature)
    ELSE IF cache.valid THEN FormatTemperature(cache.temperature)
    ELSE "--.-C"

\* HumidityString without the branch that formats the cached reading
HumidityStringFreshOnly(r, d, cache) ==
    IF r = "ESP_OK" /\ d.valid THEN FormatHumidity(d.humidity)
    ELSE "--%"

\* the three branches of dht11_get_humidity_string after dht11_read
HumidityString(r, d, cache) ==
    IF r = "ESP_OK" /\ d.valid THEN FormatHumidity(d.humidity)
    ELSE IF cache.valid THEN FormatHumidity(cache.humidity)
    ELSE "--%"

(***************************************************************************)
(* Initial state: the firmware image before system_init                    *)
(***************************************************************************)
Init ==
    /\ last_reading = ZeroReading
    /\ pin_mode = "RESET"
    /\ pin_out = 0
    /\ irq_enabled = TRUE
    /\ initialized = FALSE
    /\ pc = "idle"
    /\ caller = None
    /\ attempt = 0
    /\ data = ZeroReading
    /\ raw_data = ZeroFrame
    /\ bit_idx = 0
    /\ att_result = None
    /\ att_err = None
    /\ read_ret = None
    /\ ret = None
    /\ buffer = ""
    /\ sensor_frame = NoFrame
    /\ n_attempts = 0
    /\ fresh = FALSE
    /\ last_fail = None
    /\ call_cache = ZeroReading
    /\ last_good = NoFrame
    /\ prev_recovered = ZeroReading
    /\ gpio_config_ok \in BOOLEAN
    /\ buffer_ok = FALSE
    /\ n_reads = 0
    /\ init_rets = <<>>
    /\ init_cache = ZeroReading
    /\ rb_waits = NoWaits
    /\ rb_result = 0
    /\ rb_prev = <<NoWaits, 0>>
    /\ main_pc = "init_shared_data"
    /\ mutex = "NULL"
    /\ sensor_pc = "none"
    /\ wifi_pc = "none"
    /\ shared_data = ZeroShared
    /\ sensor_reading = ZeroReading
    /\ read_result = None
    /\ consecutive_failures = 0
    /\ error_displayed = FALSE
    /\ display = BlankScreen
    /\ wifi_data = NoData
    /\ has_valid_data = FALSE
    /\ acquired = FALSE
    /\ failed_step = None
    /\ take_failed = FALSE
    /\ displayed = FALSE
    /\ cycle_shared = ZeroShared
    /\ take_waits = {}
    /\ sensor_copied = 0
    /\ wifi_copied = 0
    /\ last_data = NoData
    /\ written = {}
    /\ wifi_outcome = None
    /\ fail_streak = 0
    /\ rd_pc = "idle"
    /\ rd_attempt = 0
    /\ rd_phase = None
    /\ rd_bits = 0
    /\ elapsed = 0
    /\ wait_result = 0
    /\ rd_attempts = 0
    /\ current_status = "DISCONNECTED"
    /\ current_rssi = 0
    /\ retry_count = 0
    /\ event_bits = {}
    /\ wifi_started = FALSE
    /\ link = "down"
    /\ events = <<>>
    /\ api_pc = "uninit"
    /\ api_call = None
    /\ api_ret = None
    /\ rssi_ret = <<"DISCONNECTED", 0>>
    /\ status_at_ret = "DISCONNECTED"
    /\ send_null = FALSE
    /\ disconnected_by_call = FALSE
    /\ stopped_at = [sensor |-> "none", wifi |-> "none", mutex |-> "NULL"]
    /\ wt_pc = "startup"
    /\ transmission_count = 0
    /\ disconnection_time = 0
    /\ was_connected = FALSE
    /\ cycle_ready = FALSE
    /\ reconnect_called = FALSE
    /\ send_called = FALSE
    /\ not_ready_run = 0
    /\ seen_ready = FALSE

\* history of the public calls
calls == <<buffer_ok, n_reads, init_rets, init_cache>>
\* state of read_bit taken alone
bit_vars == <<rb_waits, rb_result, rb_prev>>
\* the WiFi manager, the WiFi driver under it and the task that calls it
manager_state == <<current_status, current_rssi, retry_count, event_bits>>
wifi_driver == <<wifi_started, link, events>>
api_hist == <<api_call, api_ret, rssi_ret, status_at_ret, send_null,
              disconnected_by_call>>
wifi_vars == <<manager_state, wifi_driver, api_pc, api_hist>>
\* wifi_task taken alone, with the counters of its reconnection schedule
cadence_vars == <<wt_pc, transmission_count, disconnection_time,
                  was_connected, cycle_ready, reconnect_called, send_called,
                  not_ready_run, seen_ready>>
\* state of dht11_read with its polling loops spelled out
wait_vars == <<rd_pc, rd_attempt, rd_phase, rd_bits, elapsed, wait_result,
               rd_attempts>>
\* the tasks of the system manager and what they share
sensor_locals == <<sensor_reading, read_result, consecutive_failures,
                   error_displayed>>
wifi_locals == <<wifi_data, has_valid_data, wifi_copied, wifi_outcome>>
\* sensor_task inside safe_write_sensor_data and safe_read_sensor_data
snapshot == <<sensor_copied, last_data, written>>
cycle_hist == <<take_failed, displayed, cycle_shared>>
sys_vars == <<main_pc, mutex, sensor_pc, wifi_pc, shared_data, sensor_locals,
              display, wifi_locals, acquired, failed_step, cycle_hist,
              take_waits, snapshot, fail_streak>>
\* what no step of the driver touches
outside == <<gpio_config_ok, bit_vars, wait_vars, wifi_vars, sys_vars,
             stopped_at, cadence_vars>>
\* what only the entries of the public calls touch
beyond == <<calls, outside>>

hist == <<n_attempts, fresh, last_fail, call_cache, last_good, prev_recovered>>
gpio == <<pin_mode, pin_out>>
attempt_locals == <<raw_data, bit_idx, sensor_frame>>
results == <<att_result, att_err, read_ret, ret, buffer>>

(***************************************************************************)
(* dht11_init.  gpio_config is given the same constant configuration at    *)
(* every call, so it accepts it at every call or at none.                  *)
(***************************************************************************)
\* history of a dht11_init call that returns r: the return values of the
\* latest two consecutive calls and the cache as the call found it
InitHistory(r) ==
    /\ init_rets' = IF init_rets = <<>> THEN <<r>> ELSE <<init_rets[Len(init_rets)], r>>
    /\ init_cache' = last_reading
    /\ buffer_ok' = FALSE
    /\ n_reads' = 0

\* dht11_init_ok that refuses to run again once the driver is initialized
dht11_init_ok_once ==
    /\ pc = "idle"
    /\ gpio_config_ok
    /\ IF initialized
       THEN /\ ret' = "ESP_ERR_INVALID_STATE"
            /\ InitHistory("ESP_ERR_INVALID_STATE")
            /\ UNCHANGED <<gpio, initialized>>
       ELSE /\ pin_mode' = "OUTPUT_OD"
            /\ pin_out' = 1
            /\ initialized' = TRUE
            /\ ret' = "ESP_OK"
            /\ InitHistory("ESP_OK")
    /\ caller' = "init"
    /\ buffer' = ""
    /\ UNCHANGED <<last_reading, irq_enabled, pc, attempt, data,
                   attempt_locals, att_result, att_err, read_ret, hist, outside>>

\* gpio_config succeeded: open-drain output with pull-up, then level high
dht11_init_ok ==
    /\ pc = "idle"
    /\ gpio_config_ok
    /\ pin_mode' = "OUTPUT_OD"
    /\ pin_out' = 1
    /\ initialized' = TRUE
    /\ caller' = "init"
    /\ ret' = "ESP_OK"
    /\ buffer' = ""
    /\ InitHistory("ESP_OK")
    /\ UNCHANGED <<last_reading, irq_enabled, pc, attempt, data,
                   attempt_locals, att_result, att_err, read_ret, hist, outside>>

\* gpio_config failed: its error is returned and the level is not set
dht11_init_fail ==
    /\ pc = "idle"
    /\ ~gpio_config_ok
    /\ caller' = "init"
    /\ ret' = "ESP_FAIL"
    /\ buffer' = ""
    /\ InitHistory("ESP_FAIL")
    /\ UNCHANGED <<last_reading, gpio, irq_enabled, initialized, pc,
                   attempt, data, attempt_locals, att_result, att_err,
                   read_ret, hist, outside>>

(***************************************************************************)
(* Entry of the public calls.  Every call site of dht11_read passes the    *)
(* address of a local (system_manager.c:441, dht11.c:613, dht11.c:686), so *)
(* its NULL guard is never taken.                                          *)
(***************************************************************************)
\* what every entry into dht11_read sets up
EnterRead(who) ==
    /\ pc' = "loop_test"
    /\ caller' = who
    /\ attempt' = 1
    /\ data' = ZeroReading
    /\ att_result' = None
    /\ att_err' = None
    /\ read_ret' = None
    /\ ret' = None
    /\ buffer' = ""
    /\ n_attempts' = 0
    /\ fresh' = FALSE
    /\ last_fail' = None
    /\ call_cache' = last_reading
    /\ n_reads' = 1
    /\ init_rets' = <<>>
    /\ init_cache' = ZeroReading
    /\ UNCHANGED <<last_reading, gpio, irq_enabled, initialized,
                   attempt_locals, last_good, prev_recovered, outside>>

\* the sensor task's dht11_read(&sensor_reading)
call_dht11_read ==
    /\ pc = "idle"
    /\ initialized
    /\ buffer_ok' = FALSE
    /\ EnterRead("read")

\* the argument check of an accessor fails: nothing else happens
RejectArguments(who) ==
    /\ caller' = who
    /\ ret' = "ESP_ERR_INVALID_ARG"
    /\ buffer' = ""
    /\ n_reads' = 0
    /\ init_rets' = <<>>
    /\ init_cache' = ZeroReading
    /\ UNCHANGED <<last_reading, gpio, irq_enabled, initialized, pc,
                   attempt, data, attempt_locals, att_result, att_err,
                   read_ret, hist, outside>>

\* dht11_get_temperature_string(buffer, buffer_size)
call_temperature_string ==
    /\ pc = "idle"
    /\ initialized
    /\ \E buffer_null \in BOOLEAN, buffer_size \in 0..MaxBufferSize :
          /\ buffer_ok' = (~buffer_null /\ buffer_size >= TEMP_BUFFER_MIN)
          /\ IF TemperatureArgsInvalid(buffer_null, buffer_size)
             THEN RejectArguments("temp")
             ELSE EnterRead("temp")

\* dht11_get_humidity_string(buffer, buffer_size)
call_humidity_string ==
    /\ pc = "idle"
    /\ initialized
    /\ \E buffer_null \in BOOLEAN, buffer_size \in 0..MaxBufferSize :
          /\ buffer_ok' = (~buffer_null /\ buffer_size >= HUM_BUFFER_MIN)
          /\ IF HumidityArgsInvalid(buffer_null, buffer_size)
             THEN RejectArguments("hum")
             ELSE EnterRead("hum")

(***************************************************************************)
(* dht11_read: the retry loop                                              *)
(***************************************************************************)
\* loop_test with the bound written attempt < DHT11_MAX_RETRIES
loop_test_one_short ==
    /\ UNCHANGED beyond
    /\ pc = "loop_test"
    /\ IF attempt < DHT11_MAX_RETRIES
       THEN /\ pc' = "stabilize"
            /\ data' = ZeroReading
            /\ n_attempts' = n_attempts + 1
            /\ att_result' = None
            /\ att_err' = None
            /\ raw_data' = ZeroFrame
            /\ bit_idx' = 0
            /\ sensor_frame' = NoFrame
       ELSE /\ pc' = "exhausted"
            /\ UNCHANGED <<data, n_attempts, att_result, att_err,
                           attempt_locals>>
    /\ UNCHANGED <<last_reading, gpio, irq_enabled, initialized, caller,
                   attempt, read_ret, ret, buffer, fresh, last_fail,
                   call_cache, last_good, prev_recovered>>

\* for (attempt = 1; attempt <= DHT11_MAX_RETRIES; ...): enter the attempt,
\* which first resets *data, or leave the loop
loop_test ==
    /\ UNCHANGED beyond
    /\ pc = "loop_test"
    /\ IF attempt <= DHT11_MAX_RETRIES
       THEN /\ pc' = "stabilize"
            /\ data' = ZeroReading
            /\ n_attempts' = n_attempts + 1
            /\ att_result' = None
            /\ att_err' = None
            /\ raw_data' = ZeroFrame
            /\ bit_idx' = 0
            /\ sensor_frame' = NoFrame
       ELSE /\ pc' = "exhausted"
            /\ UNCHANGED <<data, n_attempts, att_result, att_err,
                           attempt_locals>>
    /\ UNCHANGED <<last_reading, gpio, irq_enabled, initialized, caller,
                   attempt, read_ret, ret, buffer, fresh, last_fail,
                   call_cache, last_good, prev_recovered>>

(***************************************************************************)
(* dht11_read_attempt                                                      *)
(***************************************************************************)
\* what no step of an attempt before its return touches
attempt_frame == <<last_reading, initialized, caller, attempt, data,
                   att_result, att_err, read_ret, ret, buffer, hist>>

\* vTaskDelay(pdMS_TO_TICKS(DHT11_STABILIZATION_MS))
stabilization_delay ==
    /\ UNCHANGED beyond
    /\ pc = "stabilize"
    /\ pc' = "irq_off"
    /\ UNCHANGED <<attempt_frame, gpio, irq_enabled, attempt_locals>>

\* disable_interrupts without the portDISABLE_INTERRUPTS() call
disable_interrupts_missing ==
    /\ UNCHANGED beyond
    /\ pc = "irq_off"
    /\ pc' = "start_low"
    /\ UNCHANGED <<attempt_frame, gpio, irq_enabled, attempt_locals>>

\* portDISABLE_INTERRUPTS(): the critical timing section starts
disable_interrupts ==
    /\ UNCHANGED beyond
    /\ pc = "irq_off"
    /\ irq_enabled' = FALSE
    /\ pc' = "start_low"
    /\ UNCHANGED <<attempt_frame, gpio, attempt_locals>>

\* gpio_set_level(pin, 0); esp_rom_delay_us(DHT11_START_LOW_TIME)
start_low ==
    /\ UNCHANGED beyond
    /\ pc = "start_low"
    /\ pin_out' = 0
    /\ pc' = "start_high"
    /\ UNCHANGED <<attempt_frame, pin_mode, irq_enabled, attempt_locals>>

\* gpio_set_level(pin, 1); esp_rom_delay_us(DHT11_START_HIGH_TIME)
start_high ==
    /\ UNCHANGED beyond
    /\ pc = "start_high"
    /\ pin_out' = 1
    /\ pc' = "set_input"
    /\ UNCHANGED <<attempt_frame, pin_mode, irq_enabled, attempt_locals>>

\* set_input that goes on to the bit reads without the acknowledgment waits
set_input_skips_acknowledgment ==
    /\ UNCHANGED beyond
    /\ pc = "set_input"
    /\ pin_mode' = "INPUT"
    /\ pc' = "bits"
    /\ raw_data' = ZeroFrame
    /\ bit_idx' = 0
    /\ sensor_frame' \in SensorFrames
    /\ UNCHANGED <<attempt_frame, pin_out, irq_enabled>>

\* gpio_set_direction(pin, GPIO_MODE_INPUT)
set_input ==
    /\ UNCHANGED beyond
    /\ pc = "set_input"
    /\ pin_mode' = "INPUT"
    /\ pc' = "ack_low"
    /\ UNCHANGED <<attempt_frame, pin_out, irq_enabled, attempt_locals>>

\* an acknowledgment-timeout exit that forgets portENABLE_INTERRUPTS()
AckExitInterruptsMissing == UNCHANGED irq_enabled

\* portENABLE_INTERRUPTS() on the acknowledgment-timeout exits
AckExitInterrupts == irq_enabled' = TRUE

\* gpio_set_direction(OUTPUT_OD); gpio_set_level(1) on the acknowledgment-timeout exits
AckExitLine == pin_mode' = "OUTPUT_OD" /\ pin_out' = 1

\* an error_exit that forgets portENABLE_INTERRUPTS()
ErrorExitInterruptsMissing == UNCHANGED irq_enabled

\* portENABLE_INTERRUPTS() at error_exit
ErrorExitInterrupts == irq_enabled' = TRUE

\* an error_exit that leaves the line as it is
ErrorExitLineMissing == UNCHANGED gpio

\* gpio_set_direction(OUTPUT_OD); gpio_set_level(1) at error_exit
ErrorExitLine == pin_mode' = "OUTPUT_OD" /\ pin_out' = 1

\* portENABLE_INTERRUPTS() at the end of the critical timing section
EndCriticalInterrupts == irq_enabled' = TRUE

\* gpio_set_direction(OUTPUT_OD); gpio_set_level(1) after the 40 bits
EndCriticalLine == pin_mode' = "OUTPUT_OD" /\ pin_out' = 1

\* AttemptFails that converts the bytes read so far on its way out
AttemptFailsKeepsPartial(kind) ==
    /\ att_result' = "ESP_FAIL"
    /\ att_err' = kind
    /\ last_fail' = kind
    /\ pc' = "attempt_ret"
    /\ data' = [ReadingOfFrame(raw_data) EXCEPT !.valid = FALSE]
    /\ UNCHANGED <<last_reading, initialized, caller, attempt,
                   read_ret, ret, buffer, n_attempts, fresh, call_cache,
                   last_good, prev_recovered>>

\* return ESP_FAIL from the attempt by the exit path `kind`
AttemptFails(kind) ==
    /\ att_result' = "ESP_FAIL"
    /\ att_err' = kind
    /\ last_fail' = kind
    /\ pc' = "attempt_ret"
    /\ UNCHANGED <<last_reading, initialized, caller, attempt, data,
                   read_ret, ret, buffer, n_attempts, fresh, call_cache,
                   last_good, prev_recovered>>

\* wait_for_pin_state(0, DHT11_RESPONSE_TIMEOUT): the sensor pulls the line
\* low in time, or the wait times out and the attempt fails
ack_low ==
    /\ UNCHANGED beyond
    /\ pc = "ack_low"
    /\ \E timed_out \in BOOLEAN :
          IF timed_out
          THEN /\ AckExitInterrupts
               /\ AckExitLine
               /\ AttemptFails("ack_low_timeout")
               /\ UNCHANGED attempt_locals
          ELSE /\ pc' = "ack_high"
               /\ UNCHANGED <<attempt_frame, gpio, irq_enabled, attempt_locals>>

\* wait_for_pin_state(1, DHT11_RESPONSE_TIMEOUT); on success raw_data is
\* zeroed and the sensor starts to transmit one of its frames
ack_high ==
    /\ UNCHANGED beyond
    /\ pc = "ack_high"
    /\ \E timed_out \in BOOLEAN :
          IF timed_out
          THEN /\ AckExitInterrupts
               /\ AckExitLine
               /\ AttemptFails("ack_high_timeout")
               /\ UNCHANGED attempt_locals
          ELSE /\ pc' = "bits"
               /\ raw_data' = ZeroFrame
               /\ bit_idx' = 0
               /\ sensor_frame' \in SensorFrames
               /\ UNCHANGED <<attempt_frame, gpio, irq_enabled>>

\* the results of the three waits of one read_bit: -1 is a timeout, after
\* which read_bit returns and the later waits (shown as 0) do not happen
BitWaits ==
    { <<-1, 0, 0>>, <<50, -1, 0>>, <<50, 1, -1>> }
        \cup { <<50, 1, t>> : t \in PulseWidths }

\* one pass of the inner loop: read_bit, then goto error_exit or store the
\* bit; a bit that decodes is the bit the sensor is transmitting
read_bit ==
    /\ UNCHANGED beyond
    /\ pc = "bits"
    /\ bit_idx < FRAME_BYTES * BITS_PER_BYTE
    /\ \E w \in BitWaits :
          LET bit == ReadBitValue(w[1], w[2], w[3]) IN
          IF bit < 0
          THEN /\ ErrorExitInterrupts
               /\ ErrorExitLine
               /\ AttemptFails("bit_error")
               /\ UNCHANGED attempt_locals
          ELSE /\ bit = FrameBit(sensor_frame, bit_idx)
               /\ raw_data' = StoreBit(raw_data, bit_idx, bit)
               /\ bit_idx' = bit_idx + 1
               /\ pc' = IF bit_idx + 1 = FRAME_BYTES * BITS_PER_BYTE
                        THEN "end_critical" ELSE "bits"
               /\ UNCHANGED <<attempt_frame, gpio, irq_enabled, sensor_frame>>

\* the critical timing section ends: interrupts on, line back to idle
end_critical ==
    /\ UNCHANGED beyond
    /\ pc = "end_critical"
    /\ EndCriticalInterrupts
    /\ EndCriticalLine
    /\ pc' = "checksum"
    /\ UNCHANGED <<attempt_frame, attempt_locals>>

\* checksum with the conversion and the write of the cache done before the
\* validation instead of after it
checksum_stores_first ==
    /\ UNCHANGED beyond
    /\ pc = "checksum"
    /\ last_reading' = ReadingOfFrame(raw_data)
    /\ IF ~ChecksumAccepts(raw_data)
       THEN /\ att_result' = "ESP_FAIL"
            /\ att_err' = "checksum_mismatch"
            /\ last_fail' = "checksum_mismatch"
            /\ pc' = "attempt_ret"
            /\ UNCHANGED <<gpio, irq_enabled, initialized, caller, attempt,
                           data, attempt_locals, read_ret, ret, buffer,
                           n_attempts, fresh, call_cache, last_good,
                           prev_recovered>>
       ELSE /\ data' = ReadingOfFrame(raw_data)
            /\ last_good' = raw_data
            /\ fresh' = TRUE
            /\ att_result' = "ESP_OK"
            /\ att_err' = "ok"
            /\ pc' = "attempt_ret"
            /\ UNCHANGED <<gpio, irq_enabled, initialized, caller, attempt,
                           attempt_locals, read_ret, ret, buffer, n_attempts,
                           last_fail, call_cache, prev_recovered>>

\* checksum validation, conversion, and the write of the cache
checksum ==
    /\ UNCHANGED beyond
    /\ pc = "checksum"
    /\ IF ~ChecksumAccepts(raw_data)
       THEN /\ AttemptFails("checksum_mismatch")
            /\ UNCHANGED <<gpio, irq_enabled, attempt_locals>>
       ELSE /\ data' = ReadingOfFrame(raw_data)
            /\ last_reading' = data'
            /\ last_good' = raw_data
            /\ fresh' = TRUE
            /\ att_result' = "ESP_OK"
            /\ att_err' = "ok"
            /\ pc' = "attempt_ret"
            /\ UNCHANGED <<gpio, irq_enabled, initialized, caller, attempt,
                           attempt_locals, read_ret, ret, buffer, n_attempts,
                           last_fail, call_cache, prev_recovered>>

(***************************************************************************)
(* dht11_read: after an attempt, and after the loop                        *)
(***************************************************************************)
\* attempt_ret that hands the first failed attempt's ESP_FAIL to the caller
attempt_ret_no_retry ==
    /\ UNCHANGED beyond
    /\ pc = "attempt_ret"
    /\ read_ret' = att_result
    /\ pc' = "read_ret"
    /\ raw_data' = ZeroFrame
    /\ bit_idx' = 0
    /\ sensor_frame' = NoFrame
    /\ UNCHANGED <<last_reading, gpio, irq_enabled, initialized, caller,
                   attempt, data, att_result, att_err, ret, buffer, hist>>

\* attempt_ret that starts the next attempt without the retry delay
attempt_ret_skips_delay ==
    /\ UNCHANGED beyond
    /\ pc = "attempt_ret"
    /\ IF att_result = "ESP_OK"
       THEN /\ read_ret' = "ESP_OK"
            /\ pc' = "read_ret"
            /\ UNCHANGED attempt
       ELSE /\ attempt' = attempt + 1
            /\ pc' = "loop_test"
            /\ UNCHANGED read_ret
    /\ raw_data' = ZeroFrame
    /\ bit_idx' = 0
    /\ sensor_frame' = NoFrame
    /\ UNCHANGED <<last_reading, gpio, irq_enabled, initialized, caller, data,
                   att_result, att_err, ret, buffer, hist>>

\* attempt_ret that goes on with the loop after a successful attempt too
attempt_ret_ignores_success ==
    /\ UNCHANGED beyond
    /\ pc = "attempt_ret"
    /\ IF attempt < DHT11_MAX_RETRIES
       THEN /\ pc' = "retry_delay"
            /\ UNCHANGED <<attempt, read_ret>>
       ELSE /\ attempt' = attempt + 1
            /\ pc' = "loop_test"
            /\ UNCHANGED read_ret
    /\ raw_data' = ZeroFrame
    /\ bit_idx' = 0
    /\ sensor_frame' = NoFrame
    /\ UNCHANGED <<last_reading, gpio, irq_enabled, initialized, caller, data,
                   att_result, att_err, ret, buffer, hist>>

\* result == ESP_OK returns at once; otherwise the retry delay follows unless
\* this was the last attempt.  The attempt's locals are gone.
attempt_ret ==
    /\ UNCHANGED beyond
    /\ pc = "attempt_ret"
    /\ IF att_result = "ESP_OK"
       THEN /\ read_ret' = "ESP_OK"
            /\ pc' = "read_ret"
            /\ UNCHANGED attempt
       ELSE IF attempt < DHT11_MAX_RETRIES
       THEN /\ pc' = "retry_delay"
            /\ UNCHANGED <<attempt, read_ret>>
       ELSE /\ attempt' = attempt + 1
            /\ pc' = "loop_test"
            /\ UNCHANGED read_ret
    /\ raw_data' = ZeroFrame
    /\ bit_idx' = 0
    /\ sensor_frame' = NoFrame
    /\ UNCHANGED <<last_reading, gpio, irq_enabled, initialized, caller, data,
                   att_result, att_err, ret, buffer, hist>>

\* vTaskDelay(pdMS_TO_TICKS(DHT11_RETRY_DELAY_MS)), then attempt++
retry_delay ==
    /\ UNCHANGED beyond
    /\ pc = "retry_delay"
    /\ attempt' = attempt + 1
    /\ pc' = "loop_test"
    /\ UNCHANGED <<last_reading, gpio, irq_enabled, initialized, caller, data,
                   attempt_locals, results, hist>>

\* all attempts failed: the cached reading marked stale, or ESP_FAIL
exhausted ==
    /\ UNCHANGED beyond
    /\ pc = "exhausted"
    /\ IF last_reading.valid
       THEN /\ data' = StaleCopy(last_reading)
            /\ read_ret' = "ESP_OK"
       ELSE /\ read_ret' = "ESP_FAIL"
            /\ UNCHANGED data
    /\ pc' = "read_ret"
    /\ UNCHANGED <<last_reading, gpio, irq_enabled, initialized, caller,
                   attempt, attempt_locals, att_result, att_err, ret, buffer,
                   hist>>

\* history of the call that returns: the reading it recovered, if it did
Recovered == IF fresh /\ last_fail # None THEN data ELSE ZeroReading

\* dht11_read returns to the sensor task
return_to_caller ==
    /\ UNCHANGED beyond
    /\ pc = "read_ret"
    /\ caller = "read"
    /\ ret' = read_ret
    /\ pc' = "idle"
    /\ prev_recovered' = Recovered
    /\ UNCHANGED <<last_reading, gpio, irq_enabled, initialized, caller,
                   attempt, data, attempt_locals, att_result, att_err,
                   read_ret, buffer, n_attempts, fresh, last_fail,
                   call_cache, last_good>>

\* dht11_read returns into dht11_get_temperature_string, which formats
format_temperature ==
    /\ UNCHANGED beyond
    /\ pc = "read_ret"
    /\ caller = "temp"
    /\ buffer' = TemperatureString(read_ret, data, last_reading)
    /\ ret' = "ESP_OK"
    /\ pc' = "idle"
    /\ prev_recovered' = Recovered
    /\ UNCHANGED <<last_reading, gpio, irq_enabled, initialized, caller,
                   attempt, data, attempt_locals, att_result, att_err,
                   read_ret, n_attempts, fresh, last_fail, call_cache,
                   last_good>>

\* dht11_read returns into dht11_get_humidity_string, which formats
format_humidity ==
    /\ UNCHANGED beyond
    /\ pc = "read_ret"
    /\ caller = "hum"
    /\ buffer' = HumidityString(read_ret, data, last_reading)
    /\ ret' = "ESP_OK"
    /\ pc' = "idle"
    /\ prev_recovered' = Recovered
    /\ UNCHANGED <<last_reading, gpio, irq_enabled, initialized, caller,
                   attempt, data, attempt_locals, att_result, att_err,
                   read_ret, n_attempts, fresh, last_fail, call_cache,
                   last_good>>

(***************************************************************************)
(* The driver and its callers                                              *)
(***************************************************************************)
Next ==
    \/ dht11_init_ok
    \/ dht11_init_fail
    \/ call_dht11_read
    \/ call_temperature_string
    \/ call_humidity_string
    \/ loop_test
    \/ stabilization_delay
    \/ disable_interrupts
    \/ start_low
    \/ start_high
    \/ set_input
    \/ ack_low
    \/ ack_high
    \/ read_bit
    \/ end_critical
    \/ checksum
    \/ attempt_ret
    \/ retry_delay
    \/ exhausted
    \/ return_to_caller
    \/ format_temperature
    \/ format_humidity

Spec == Init /\ [][Next]_vars

(***************************************************************************)
(* read_bit taken alone: called again and again on every outcome of its    *)
(* three waits                                                             *)
(***************************************************************************)
\* the state of the driver and of its callers
driver == <<last_reading, gpio, irq_enabled, initialized, pc, caller, attempt,
            data, attempt_locals, results, hist, calls, gpio_config_ok,
            stopped_at>>

\* the results of the three waits of one read_bit: -1 is a timeout, after
\* which read_bit returns and the later waits (shown as 0) do not happen;
\* the third wait measures every width up to MaxElapsed
ReadBitInputs ==
    { <<-1, 0, 0>>, <<50, -1, 0>> } \cup { <<50, 1, t>> : t \in -1..MaxElapsed }

\* one call of read_bit
read_bit_alone ==
    /\ \E w \in ReadBitInputs :
          /\ rb_waits' = w
          /\ rb_result' = ReadBitValue(w[1], w[2], w[3])
    /\ rb_prev' = <<rb_waits, rb_result>>
    /\ UNCHANGED <<driver, wait_vars, wifi_vars, sys_vars, cadence_vars>>

NextReadBit == read_bit_alone

SpecReadBit == Init /\ [][NextReadBit]_vars

(***************************************************************************)
(* The system manager: app_main with system_init and system_start, then    *)
(* sensor_task and wifi_task around shared_data and its mutex.  One        *)
(* dht11_read is one step here, with the outcomes the driver above gives   *)
(* it: a fresh reading, the stale copy of the cache, or ESP_FAIL.          *)
(* cycle_count and the timestamp it is stored as are written and never    *)
(* read by the two tasks; they are left out.                               *)
(***************************************************************************)
MUTEX_TIMEOUT_MS == 100
SENSOR_FAILURE_COUNT_LIMIT == 3
SENSOR_RESTART_COUNT_LIMIT == 6
\* -999.0 in tenths
NO_DATA_SENTINEL == -9990

\* what the system manager never touches in the driver
driver_rest == <<irq_enabled, pc, caller, attempt, data, attempt_locals,
                 results, hist, calls, bit_vars, wait_vars, wifi_vars,
                 gpio_config_ok, stopped_at, cadence_vars>>
driver_state == <<last_reading, gpio, initialized>>
tasks == <<sensor_pc, wifi_pc, sensor_locals, wifi_locals, cycle_hist,
           take_waits, acquired, snapshot, fail_streak>>

\* the readings a dht11_read of the system run decodes
FreshReadings ==
    { ReadingOfFrame(<<41, 0, 22, 5, 68>>), ReadingOfFrame(<<65, 0, 20, 0, 85>>) }

\* pdMS_TO_TICKS(MUTEX_TIMEOUT_MS), the block time of every xSemaphoreTake
SharedMutexWait == [forever |-> FALSE, ms |-> MUTEX_TIMEOUT_MS]

\* TakeSucceeds with a take that is granted whoever holds the mutex
TakeSucceedsNoExclusion(task) == mutex # "NULL" /\ mutex' = task

\* xSemaphoreTake returns pdTRUE: the mutex was free and `task` holds it now
TakeSucceeds(task) == mutex = "free" /\ mutex' = task

\* xSemaphoreTake returns pdFALSE: another task held the mutex for the whole
\* block time, which a block time of portMAX_DELAY never lets happen
TakeTimesOut(wait) ==
    /\ mutex \notin {"free", "NULL"}
    /\ ~wait.forever
    /\ UNCHANGED mutex

\* update_display_with_sensor_data: "TEMP %.1fC" and "HUMD %.0f%%"
ReadingScreen(temperature, humidity) ==
    <<"TEMP " \o FormatTemperature(temperature),
      "HUMD " \o FormatHumidity(humidity)>>

\* InitFails with an app_main that calls system_start whatever system_init
\* returned
InitFailsIgnored(step) == main_pc' = "start_sensor" /\ failed_step' = step

\* a step of system_init failed: system_init returns ESP_FAIL and app_main
\* returns without calling system_start
InitFails(step) == main_pc' = "halted" /\ failed_step' = step

\* a task could not be created: system_start returns ESP_FAIL and app_main
\* returns
StartFails(step) == main_pc' = "halted" /\ failed_step' = step

\* init_shared_data: the fields are reset and the mutex is created
init_shared_data ==
    /\ main_pc = "init_shared_data"
    /\ shared_data' = ZeroShared
    /\ \E created \in BOOLEAN :
          IF created
          THEN mutex' = "free" /\ main_pc' = "st7789_init" /\ UNCHANGED failed_step
          ELSE UNCHANGED mutex /\ InitFails("init_shared_data")
    /\ UNCHANGED <<tasks, display, driver_state, driver_rest>>

\* st7789_init
st7789_init ==
    /\ main_pc = "st7789_init"
    /\ \E ok \in BOOLEAN :
          IF ok
          THEN main_pc' = "dht11_init" /\ UNCHANGED failed_step
          ELSE InitFails("st7789_init")
    /\ UNCHANGED <<mutex, shared_data, tasks, display, driver_state, driver_rest>>

\* dht11_init as system_init calls it
system_dht11_init ==
    /\ main_pc = "dht11_init"
    /\ IF gpio_config_ok
       THEN /\ pin_mode' = "OUTPUT_OD"
            /\ pin_out' = 1
            /\ initialized' = TRUE
            /\ main_pc' = "wifi_manager_init"
            /\ UNCHANGED failed_step
       ELSE /\ InitFails("dht11_init")
            /\ UNCHANGED <<gpio, initialized>>
    /\ UNCHANGED <<mutex, shared_data, tasks, display, last_reading, driver_rest>>

\* wifi_manager_init, the last step of system_init
wifi_manager_init ==
    /\ main_pc = "wifi_manager_init"
    /\ \E ok \in BOOLEAN :
          IF ok
          THEN main_pc' = "start_sensor" /\ UNCHANGED failed_step
          ELSE InitFails("wifi_manager_init")
    /\ UNCHANGED <<mutex, shared_data, tasks, display, driver_state, driver_rest>>

\* system_start: the startup screen, then the sensor task is created
start_sensor_task ==
    /\ main_pc = "start_sensor"
    /\ display' = <<"START", "SYSTEM">>
    /\ \E created \in BOOLEAN :
          IF created
          THEN /\ sensor_pc' = "read"
               /\ main_pc' = "start_wifi"
               /\ UNCHANGED failed_step
          ELSE /\ StartFails("sensor_task")
               /\ UNCHANGED sensor_pc
    /\ UNCHANGED <<mutex, shared_data, wifi_pc, sensor_locals, wifi_locals,
                   cycle_hist, take_waits, acquired, snapshot, fail_streak,
                   driver_state, driver_rest>>

\* system_start: the WiFi task is created
start_wifi_task ==
    /\ main_pc = "start_wifi"
    /\ \E created \in BOOLEAN :
          IF created
          THEN /\ wifi_pc' = "startup"
               /\ main_pc' = "start_display"
               /\ UNCHANGED failed_step
          ELSE /\ StartFails("wifi_task")
               /\ UNCHANGED wifi_pc
    /\ UNCHANGED <<mutex, shared_data, sensor_pc, sensor_locals, wifi_locals,
                   cycle_hist, take_waits, acquired, snapshot, fail_streak,
                   display, driver_state, driver_rest>>

\* system_start: after the startup delay the initial screen is drawn
start_display ==
    /\ main_pc = "start_display"
    /\ display' = <<"TEMP  __._C", "HUMD  __%">>
    /\ main_pc' = "running"
    /\ UNCHANGED <<mutex, shared_data, tasks, failed_step, driver_state,
                   driver_rest>>

\* what only a dht11_read changes
past_reads == <<last_reading, fail_streak>>

\* what sensor_task never touches
beside_sensor == <<main_pc, wifi_pc, wifi_locals, failed_step, take_waits,
                   initialized, gpio, driver_rest>>

\* dht11_read(&sensor_reading): a frame is decoded and cached, or every
\* attempt fails and the cache, if valid, comes back marked stale
sensor_dht11_read ==
    /\ sensor_pc = "read"
    /\ acquired' = TRUE
    /\ \E decoded \in FreshReadings \cup {ZeroReading} :
          IF decoded.valid
          THEN /\ last_reading' = decoded
               /\ sensor_reading' = decoded
               /\ read_result' = "ESP_OK"
               /\ fail_streak' = 0
          ELSE /\ UNCHANGED last_reading
               /\ fail_streak' = fail_streak + 1
               /\ sensor_reading' =
                     IF last_reading.valid THEN StaleCopy(last_reading)
                     ELSE ZeroReading
               /\ read_result' =
                     IF last_reading.valid THEN "ESP_OK" ELSE "ESP_FAIL"
    /\ sensor_pc' = "evaluate"
    /\ UNCHANGED <<mutex, shared_data, consecutive_failures, error_displayed,
                   display, cycle_hist, snapshot, beside_sensor>>

\* FailureCount with a counter that a good reading leaves as it is
FailureCountNoReset(count, good) == IF good THEN count ELSE count + 1

\* consecutive_failures after a cycle: 0 after a good reading (it stays 0 or
\* is reset), one more after any other outcome of dht11_read
FailureCount(count, good) == IF good THEN 0 ELSE count + 1

\* GoodReading with a stale copy of the cache taken for a reading
GoodReadingAnySuccess(result, reading) == result = "ESP_OK"

\* the test of sensor_task on what dht11_read gave: the call succeeded and
\* the reading is marked valid
GoodReading(result, reading) == result = "ESP_OK" /\ reading.valid

\* WritesReading with every successful call stored, stale copies included
WritesReadingAnySuccess(result, reading) == result = "ESP_OK"

\* the branch of sensor_task that calls safe_write_sensor_data is the
\* branch of that same test
WritesReading(result, reading) == GoodReading(result, reading)

\* the branches of sensor_task on read_result and sensor_reading.valid, up
\* to the next call of safe_write_sensor_data or safe_read_sensor_data
sensor_evaluate ==
    /\ sensor_pc = "evaluate"
    /\ consecutive_failures' =
          FailureCount(consecutive_failures,
                       GoodReading(read_result, sensor_reading))
    /\ IF WritesReading(read_result, sensor_reading)
       THEN /\ error_displayed' =
                  IF consecutive_failures > 0 THEN FALSE ELSE error_displayed
            /\ sensor_pc' = "write_take"
            /\ UNCHANGED <<display, displayed>>
       ELSE /\ IF consecutive_failures' >= SENSOR_RESTART_COUNT_LIMIT
               THEN /\ sensor_pc' = "restart_warning"
                    /\ UNCHANGED <<error_displayed, display, displayed>>
               ELSE IF /\ consecutive_failures' >= SENSOR_FAILURE_COUNT_LIMIT
                       /\ ~error_displayed
               THEN /\ display' = <<"SENS0R", "ERR0R!">>
                    /\ displayed' = TRUE
                    /\ error_displayed' = TRUE
                    /\ sensor_pc' = "delay"
               ELSE IF consecutive_failures' < SENSOR_FAILURE_COUNT_LIMIT
               THEN /\ sensor_pc' = "read_take"
                    /\ UNCHANGED <<error_displayed, display, displayed>>
               ELSE /\ sensor_pc' = "delay"
                    /\ UNCHANGED <<error_displayed, display, displayed>>
    /\ UNCHANGED <<mutex, shared_data, sensor_reading, read_result, acquired,
                   take_failed, cycle_shared, snapshot, past_reads,
                   beside_sensor>>

\* WriteTakeFailed with a sensor_task that ignores what
\* safe_write_sensor_data returns and updates the display
WriteTakeFailedDisplays ==
    /\ take_failed' = TRUE
    /\ sensor_pc' = "delay"
    /\ display' = ReadingScreen(sensor_reading.temperature,
                                sensor_reading.humidity)
    /\ displayed' = TRUE
    /\ UNCHANGED <<shared_data, cycle_shared>>

\* safe_write_sensor_data returns false: nothing is written, the display
\* update is skipped and the task goes on to vTaskDelayUntil
WriteTakeFailed ==
    /\ take_failed' = TRUE
    /\ sensor_pc' = "delay"
    /\ UNCHANGED <<shared_data, display, displayed, cycle_shared>>

\* safe_write_sensor_data: xSemaphoreTake(shared_data.mutex, 100 ms)
sensor_write_take ==
    /\ sensor_pc = "write_take"
    /\ take_waits' = take_waits \cup {SharedMutexWait}
    /\ \/ /\ TakeSucceeds("sensor")
          /\ sensor_pc' = "write_cs"
          /\ UNCHANGED <<shared_data, display, cycle_hist>>
       \/ /\ TakeTimesOut(SharedMutexWait)
          /\ WriteTakeFailed
    /\ UNCHANGED <<sensor_locals, acquired, snapshot, past_reads, main_pc,
                   wifi_pc, wifi_locals, failed_step, initialized, gpio,
                   driver_rest>>

\* shared_data.data = *sensor_reading is a copy word by word: the
\* temperature first, the humidity second
sensor_write_field ==
    /\ sensor_pc = "write_cs"
    /\ sensor_copied < 2
    /\ shared_data' =
          IF sensor_copied = 0
          THEN [shared_data EXCEPT !.data.temperature = sensor_reading.temperature]
          ELSE [shared_data EXCEPT !.data.humidity = sensor_reading.humidity]
    /\ sensor_copied' = sensor_copied + 1
    /\ written' = written \cup {<<sensor_reading.temperature,
                                   sensor_reading.humidity>>}
    /\ UNCHANGED <<mutex, sensor_pc, sensor_locals, display, acquired,
                   cycle_hist, last_data, past_reads, beside_sensor>>

\* safe_write_sensor_data holding the mutex: the last word of the reading
\* and has_new_data are stored and the mutex given back; then the display
\* shows the reading
sensor_write_cs ==
    /\ sensor_pc = "write_cs"
    /\ sensor_copied = 2
    /\ shared_data' = [data |-> [shared_data.data EXCEPT !.valid = sensor_reading.valid],
                       has_new_data |-> TRUE]
    /\ sensor_copied' = 0
    /\ mutex' = "free"
    /\ display' = ReadingScreen(sensor_reading.temperature,
                                sensor_reading.humidity)
    /\ displayed' = TRUE
    /\ sensor_pc' = "delay"
    /\ UNCHANGED <<sensor_locals, acquired, take_failed, cycle_shared,
                   last_data, written, past_reads, beside_sensor>>

\* safe_read_sensor_data returns false with *has_valid_data = false: the
\* display update is skipped
ReadTakeFailed ==
    /\ take_failed' = TRUE
    /\ sensor_pc' = "delay"
    /\ UNCHANGED <<shared_data, display, displayed, cycle_shared>>

\* safe_read_sensor_data of sensor_task: xSemaphoreTake(shared_data.mutex, 100 ms)
sensor_read_take ==
    /\ sensor_pc = "read_take"
    /\ take_waits' = take_waits \cup {SharedMutexWait}
    /\ \/ /\ TakeSucceeds("sensor")
          /\ sensor_pc' = "read_cs"
          /\ UNCHANGED <<shared_data, display, cycle_hist>>
       \/ /\ TakeTimesOut(SharedMutexWait)
          /\ ReadTakeFailed
    /\ UNCHANGED <<sensor_locals, acquired, snapshot, past_reads, main_pc,
                   wifi_pc, wifi_locals, failed_step, initialized, gpio,
                   driver_rest>>

\* safe_read_sensor_data holding the mutex: shared_data.data.valid is set,
\* data->temperature = shared_data.data.temperature
sensor_read_field ==
    /\ sensor_pc = "read_cs"
    /\ sensor_copied = 0
    /\ shared_data.data.valid
    /\ last_data' = [last_data EXCEPT !.temperature = shared_data.data.temperature]
    /\ sensor_copied' = 1
    /\ UNCHANGED <<mutex, shared_data, sensor_pc, sensor_locals, display,
                   acquired, cycle_hist, written, past_reads, beside_sensor>>

\* safe_read_sensor_data holding the mutex: the humidity is copied, or the
\* shared reading is not valid; the mutex is given back and a reading that
\* was copied is displayed
sensor_read_cs ==
    /\ sensor_pc = "read_cs"
    /\ sensor_copied = 1 \/ ~shared_data.data.valid
    /\ mutex' = "free"
    /\ IF sensor_copied = 1
       THEN /\ last_data' = [last_data EXCEPT !.humidity = shared_data.data.humidity]
            /\ display' = ReadingScreen(last_data.temperature,
                                        shared_data.data.humidity)
            /\ displayed' = TRUE
       ELSE UNCHANGED <<last_data, display, displayed>>
    /\ sensor_copied' = 0
    /\ sensor_pc' = "delay"
    /\ UNCHANGED <<shared_data, sensor_locals, acquired, take_failed,
                   cycle_shared, written, past_reads, beside_sensor>>

\* vTaskDelayUntil, then the next cycle starts with sensor_reading = {0}
sensor_delay ==
    /\ sensor_pc = "delay"
    /\ sensor_pc' = "read"
    /\ sensor_reading' = ZeroReading
    /\ read_result' = None
    /\ take_failed' = FALSE
    /\ displayed' = FALSE
    /\ cycle_shared' = shared_data
    /\ last_data' = NoData
    /\ UNCHANGED <<mutex, shared_data, consecutive_failures, error_displayed,
                   display, acquired, sensor_copied, written, past_reads,
                   beside_sensor>>

\* restart_system_due_to_sensor_failure: the warning screen and its delay
restart_warning ==
    /\ sensor_pc = "restart_warning"
    /\ display' = <<"TEMP ERR0R", "RESTART">>
    /\ displayed' = TRUE
    /\ sensor_pc' = "esp_restart"
    /\ UNCHANGED <<mutex, shared_data, sensor_locals, acquired, take_failed,
                   cycle_shared, snapshot, past_reads, beside_sensor>>

\* esp_restart(): the chip reboots, memory and pins are as at power-on
esp_restart ==
    /\ sensor_pc = "esp_restart"
    /\ main_pc' = "init_shared_data"
    /\ mutex' = "NULL"
    /\ sensor_pc' = "none"
    /\ wifi_pc' = "none"
    /\ shared_data' = ZeroShared
    /\ sensor_reading' = ZeroReading
    /\ read_result' = None
    /\ consecutive_failures' = 0
    /\ error_displayed' = FALSE
    /\ display' = BlankScreen
    /\ wifi_data' = NoData
    /\ has_valid_data' = FALSE
    /\ acquired' = FALSE
    /\ failed_step' = None
    /\ take_failed' = FALSE
    /\ displayed' = FALSE
    /\ cycle_shared' = ZeroShared
    /\ take_waits' = {}
    /\ sensor_copied' = 0
    /\ wifi_copied' = 0
    /\ last_data' = NoData
    /\ written' = {}
    /\ wifi_outcome' = None
    /\ fail_streak' = 0
    /\ last_reading' = ZeroReading
    /\ pin_mode' = "RESET"
    /\ pin_out' = 0
    /\ initialized' = FALSE
    /\ UNCHANGED driver_rest

\* what wifi_task never touches
beside_wifi == <<main_pc, sensor_pc, sensor_locals, shared_data, display,
                 acquired, failed_step, cycle_hist, snapshot, fail_streak,
                 driver_state, driver_rest>>

\* the startup delay and the first wifi_manager_connect
wifi_startup ==
    /\ wifi_pc = "startup"
    /\ wifi_pc' = "cycle"
    /\ UNCHANGED <<mutex, wifi_locals, take_waits, beside_wifi>>

\* the head of a transmission cycle: without a connection there is nothing
\* to send; with one, wifi_data = {0} and has_valid_data = false
wifi_cycle ==
    /\ wifi_pc = "cycle"
    /\ \E is_connected \in BOOLEAN :
          IF is_connected
          THEN /\ wifi_data' = NoData
               /\ has_valid_data' = FALSE
               /\ wifi_pc' = "take"
          ELSE /\ wifi_pc' = "delay"
               /\ UNCHANGED <<wifi_data, has_valid_data>>
    /\ wifi_outcome' = None
    /\ UNCHANGED wifi_copied
    /\ UNCHANGED <<mutex, take_waits, beside_wifi>>

\* safe_read_sensor_data of wifi_task: xSemaphoreTake(shared_data.mutex, 100 ms);
\* on the timeout *has_valid_data = false
wifi_take ==
    /\ wifi_pc = "take"
    /\ take_waits' = take_waits \cup {SharedMutexWait}
    /\ \/ /\ TakeSucceeds("wifi")
          /\ wifi_pc' = "cs"
          /\ UNCHANGED wifi_locals
       \/ /\ TakeTimesOut(SharedMutexWait)
          /\ has_valid_data' = FALSE
          /\ wifi_pc' = "send"
          /\ wifi_outcome' = "timeout"
          /\ UNCHANGED <<wifi_data, wifi_copied>>
    /\ UNCHANGED beside_wifi

\* safe_read_sensor_data holding the mutex: shared_data.data.valid is set,
\* data->temperature = shared_data.data.temperature
wifi_read_field ==
    /\ wifi_pc = "cs"
    /\ wifi_copied = 0
    /\ shared_data.data.valid
    /\ wifi_data' = [wifi_data EXCEPT !.temperature = shared_data.data.temperature]
    /\ wifi_copied' = 1
    /\ UNCHANGED <<mutex, wifi_pc, has_valid_data, wifi_outcome, take_waits,
                   beside_wifi>>

\* safe_read_sensor_data holding the mutex: the humidity is copied and
\* *has_valid_data = true, or the shared reading is not valid and
\* *has_valid_data = false; then the mutex is given back
wifi_cs ==
    /\ wifi_pc = "cs"
    /\ wifi_copied = 1 \/ ~shared_data.data.valid
    /\ IF wifi_copied = 1
       THEN /\ wifi_data' = [wifi_data EXCEPT !.humidity = shared_data.data.humidity]
            /\ has_valid_data' = TRUE
            /\ wifi_outcome' = "valid"
       ELSE /\ has_valid_data' = FALSE
            /\ wifi_outcome' = "invalid"
            /\ UNCHANGED wifi_data
    /\ wifi_copied' = 0
    /\ mutex' = "free"
    /\ wifi_pc' = "send"
    /\ UNCHANGED <<take_waits, beside_wifi>>

\* TransmitData with the sentinel stored in the temperature field alone
TransmitDataTemperatureOnly(d, valid) ==
    IF valid THEN d ELSE [d EXCEPT !.temperature = NO_DATA_SENTINEL]

\* the payload of a cycle: the copy of the shared reading, or -999.0 in both
\* fields when has_valid_data is false
TransmitData(d, valid) ==
    IF valid THEN d
    ELSE [temperature |-> NO_DATA_SENTINEL, humidity |-> NO_DATA_SENTINEL]

\* without valid data both fields become -999.0; wifi_manager_send_data
wifi_send ==
    /\ wifi_pc = "send"
    /\ wifi_data' = TransmitData(wifi_data, has_valid_data)
    /\ wifi_pc' = "delay"
    /\ UNCHANGED <<mutex, has_valid_data, wifi_copied, wifi_outcome, take_waits,
                   beside_wifi>>

\* vTaskDelayUntil of wifi_task
wifi_delay ==
    /\ wifi_pc = "delay"
    /\ wifi_pc' = "cycle"
    /\ UNCHANGED <<mutex, wifi_locals, take_waits, beside_wifi>>

NextSys ==
    \/ init_shared_data
    \/ st7789_init
    \/ system_dht11_init
    \/ wifi_manager_init
    \/ start_sensor_task
    \/ start_wifi_task
    \/ start_display
    \/ sensor_dht11_read
    \/ sensor_evaluate
    \/ sensor_write_take
    \/ sensor_write_field
    \/ sensor_write_cs
    \/ sensor_read_take
    \/ sensor_read_field
    \/ sensor_read_cs
    \/ sensor_delay
    \/ restart_warning
    \/ esp_restart
    \/ wifi_startup
    \/ wifi_cycle
    \/ wifi_take
    \/ wifi_read_field
    \/ wifi_cs
    \/ wifi_send
    \/ wifi_delay

SpecSys == Init /\ [][NextSys]_vars

(***************************************************************************)
(* system_stop.  The system runs as above, with the dht11_read of          *)
(* sensor_task spelled out as far as a deletion of the task can tell its   *)
(* parts apart: the delays, in which the task is blocked; the critical     *)
(* timing section, in which interrupts are masked and the task cannot be   *)
(* switched out; and the release of the line after it.  vTaskDelete takes  *)
(* a task that is not running away at once, wherever it is.                *)
(***************************************************************************)
\* what the dht11_read of sensor_task never touches
beside_read == <<main_pc, mutex, wifi_pc, shared_data, consecutive_failures,
                 error_displayed, display, wifi_locals, failed_step,
                 cycle_hist, take_waits, snapshot, initialized, pc, caller,
                 data, attempt_locals, results, hist, calls, bit_vars,
                 wait_vars, wifi_vars, gpio_config_ok, stopped_at,
                 cadence_vars>>

\* dht11_read_attempt after its stabilization delay: interrupts are masked,
\* the start signal is sent and the line is switched to input
sensor_read_enter_critical ==
    /\ sensor_pc = "read"
    /\ attempt' = attempt + 1
    /\ irq_enabled' = FALSE
    /\ pin_mode' = "INPUT"
    /\ pin_out' = 1
    /\ sensor_pc' = "critical"
    /\ UNCHANGED <<last_reading, sensor_reading, read_result, fail_streak,
                   acquired, beside_read>>

\* portENABLE_INTERRUPTS(), after the 40 bits or on an exit by timeout
sensor_read_leave_critical ==
    /\ sensor_pc = "critical"
    /\ irq_enabled' = TRUE
    /\ sensor_pc' = "release"
    /\ UNCHANGED <<last_reading, sensor_reading, read_result, fail_streak,
                   acquired, attempt, gpio, beside_read>>

\* gpio_set_direction(OUTPUT_OD); gpio_set_level(1); the attempt returns
\* and the loop of dht11_read goes on after a failure while attempts are left
sensor_read_release_line ==
    /\ sensor_pc = "release"
    /\ pin_mode' = "OUTPUT_OD"
    /\ pin_out' = 1
    /\ \E frame_ok \in BOOLEAN :
          sensor_pc' = IF frame_ok THEN "read_ok"
                       ELSE IF attempt < DHT11_MAX_RETRIES THEN "retry_delay"
                       ELSE "read_failed"
    /\ UNCHANGED <<last_reading, sensor_reading, read_result, fail_streak,
                   acquired, attempt, irq_enabled, beside_read>>

\* vTaskDelay(pdMS_TO_TICKS(DHT11_RETRY_DELAY_MS)) between two attempts
sensor_read_retry_delay ==
    /\ sensor_pc = "retry_delay"
    /\ sensor_pc' = "read"
    /\ UNCHANGED <<last_reading, sensor_reading, read_result, fail_streak,
                   acquired, attempt, irq_enabled, gpio, beside_read>>

\* dht11_read returns to sensor_task, as in sensor_dht11_read
sensor_read_returns ==
    /\ sensor_pc \in {"read_ok", "read_failed"}
    /\ acquired' = TRUE
    /\ attempt' = 0
    /\ IF sensor_pc = "read_ok"
       THEN \E decoded \in FreshReadings :
               /\ last_reading' = decoded
               /\ sensor_reading' = decoded
               /\ read_result' = "ESP_OK"
               /\ fail_streak' = 0
       ELSE /\ UNCHANGED last_reading
            /\ fail_streak' = fail_streak + 1
            /\ sensor_reading' =
                  IF last_reading.valid THEN StaleCopy(last_reading)
                  ELSE ZeroReading
            /\ read_result' =
                  IF last_reading.valid THEN "ESP_OK" ELSE "ESP_FAIL"
    /\ sensor_pc' = "evaluate"
    /\ UNCHANGED <<irq_enabled, gpio, beside_read>>

\* system_stop, called once the system runs: both tasks are deleted, then
\* the mutex, and the stopped screen is drawn.  The caller, or the deletion
\* it asks for, gets the processor of sensor_task only while interrupts
\* are not masked there.
system_stop ==
    /\ main_pc = "running"
    /\ irq_enabled
    /\ stopped_at' = [sensor |-> sensor_pc, wifi |-> wifi_pc, mutex |-> mutex]
    /\ sensor_pc' = "deleted"
    /\ wifi_pc' = "deleted"
    /\ mutex' = "NULL"
    /\ display' = <<"", "ST0PPED">>
    /\ main_pc' = "stopped"
    /\ UNCHANGED <<shared_data, sensor_locals, wifi_locals, acquired,
                   failed_step, cycle_hist, take_waits, snapshot, fail_streak,
                   driver_state, irq_enabled, pc, caller, attempt, data,
                   attempt_locals, results, hist, calls, bit_vars, wait_vars,
                   wifi_vars, gpio_config_ok, cadence_vars>>

NextStop ==
    \/ init_shared_data
    \/ st7789_init
    \/ system_dht11_init
    \/ wifi_manager_init
    \/ start_sensor_task
    \/ start_wifi_task
    \/ start_display
    \/ sensor_read_enter_critical
    \/ sensor_read_leave_critical
    \/ sensor_read_release_line
    \/ sensor_read_retry_delay
    \/ sensor_read_returns
    \/ sensor_evaluate
    \/ sensor_write_take
    \/ sensor_write_field
    \/ sensor_write_cs
    \/ sensor_read_take
    \/ sensor_read_field
    \/ sensor_read_cs
    \/ sensor_delay
    \/ restart_warning
    \/ esp_restart
    \/ wifi_startup
    \/ wifi_cycle
    \/ wifi_take
    \/ wifi_read_field
    \/ wifi_cs
    \/ wifi_send
    \/ wifi_delay
    \/ system_stop

SpecStop == Init /\ [][NextStop]_vars

(***************************************************************************)
(* system_start called again after system_stop.  The tasks are created     *)
(* anew, with their locals as at their entry; the statics of the system    *)
(* manager, shared_data.mutex among them, are as system_stop left them.    *)
(***************************************************************************)
\* system_start is called after system_stop has returned
system_start_again ==
    /\ main_pc = "stopped"
    /\ main_pc' = "start_sensor"
    /\ sensor_pc' = "none"
    /\ wifi_pc' = "none"
    /\ sensor_reading' = ZeroReading
    /\ read_result' = None
    /\ consecutive_failures' = 0
    /\ error_displayed' = FALSE
    /\ wifi_data' = NoData
    /\ has_valid_data' = FALSE
    /\ wifi_copied' = 0
    /\ wifi_outcome' = None
    /\ acquired' = FALSE
    /\ take_failed' = FALSE
    /\ displayed' = FALSE
    /\ cycle_shared' = ZeroShared
    /\ take_waits' = {}
    /\ sensor_copied' = 0
    /\ last_data' = NoData
    /\ written' = {}
    /\ fail_streak' = 0
    /\ attempt' = 0
    /\ stopped_at' = [sensor |-> "none", wifi |-> "none", mutex |-> "NULL"]
    /\ UNCHANGED <<mutex, shared_data, display, failed_step, driver_state,
                   irq_enabled, pc, caller, data, attempt_locals, results,
                   hist, calls, bit_vars, wait_vars, wifi_vars, gpio_config_ok,
                   cadence_vars>>

\* the tasks that are about to take shared_data.mutex
Takers ==
    (IF sensor_pc \in {"write_take", "read_take"} THEN {"sensor"} ELSE {})
        \cup (IF wifi_pc = "take" THEN {"wifi"} ELSE {})

\* xSemaphoreTake(shared_data.mutex, ...) with shared_data.mutex == NULL:
\* the assertion on the handle fails, or address 0 is read; the panic
\* handler halts or reboots the chip, and the run ends here
take_null_mutex ==
    /\ mutex = "NULL"
    /\ Takers # {}
    /\ main_pc' = "panic"
    /\ sensor_pc' = "panic"
    /\ wifi_pc' = "panic"
    /\ UNCHANGED <<mutex, shared_data, sensor_locals, display, wifi_locals,
                   acquired, failed_step, cycle_hist, take_waits, snapshot,
                   fail_streak, driver_state, driver_rest>>

NextResume ==
    \/ init_shared_data
    \/ st7789_init
    \/ system_dht11_init
    \/ wifi_manager_init
    \/ start_sensor_task
    \/ start_wifi_task
    \/ start_display
    \/ sensor_read_enter_critical
    \/ sensor_read_leave_critical
    \/ sensor_read_release_line
    \/ sensor_read_retry_delay
    \/ sensor_read_returns
    \/ sensor_evaluate
    \/ sensor_write_take
    \/ sensor_write_field
    \/ sensor_write_cs
    \/ sensor_read_take
    \/ sensor_read_field
    \/ sensor_read_cs
    \/ sensor_delay
    \/ restart_warning
    \/ esp_restart
    \/ wifi_startup
    \/ wifi_cycle
    \/ wifi_take
    \/ wifi_read_field
    \/ wifi_cs
    \/ wifi_send
    \/ wifi_delay
    \/ system_stop
    \/ system_start_again
    \/ take_null_mutex

SpecResume == Init /\ [][NextResume]_vars

(***************************************************************************)
(* wifi_task taken alone: the schedule of its reconnection requests.  What  *)
(* wifi_manager_is_ready() answers at the head of a cycle is up to the      *)
(* network, whatever the task asked for before.                             *)
(***************************************************************************)
\* what wifi_task taken alone never touches
beside_cadence == <<driver, bit_vars, wait_vars, wifi_vars, sys_vars>>

\* the startup delay and the first, blocking wifi_manager_connect, whose
\* result is only logged
wifi_task_startup ==
    /\ wt_pc = "startup"
    /\ wt_pc' = "loop"
    /\ UNCHANGED <<transmission_count, disconnection_time, was_connected,
                   cycle_ready, reconnect_called, send_called, not_ready_run,
                   seen_ready, beside_cadence>>

\* should_attempt_connection with a request in the cycle of the detection
ShouldAttemptConnectionAtDetection(count, since) ==
    IF since = 0 THEN count % 2 = 0
    ELSE (count - since) % 2 = 0

\* should_attempt_connection: every second cycle from the start while
\* disconnection_time is 0, every second cycle after the detection otherwise
ShouldAttemptConnection(count, since) ==
    IF since = 0 THEN count % 2 = 0
    ELSE (count - since) % 2 = 0 /\ (count - since) > 0

\* one pass of the loop of wifi_task, up to its vTaskDelayUntil
wifi_task_cycle ==
    /\ wt_pc = "loop"
    /\ transmission_count < MaxCycles
    /\ transmission_count' = transmission_count + 1
    /\ \E is_connected \in BOOLEAN :
          /\ cycle_ready' = is_connected
          /\ IF is_connected
             THEN /\ disconnection_time' =
                        IF was_connected THEN disconnection_time ELSE 0
                  /\ was_connected' = TRUE
                  /\ reconnect_called' = FALSE
                  /\ send_called' = TRUE
                  /\ not_ready_run' = 0
                  /\ seen_ready' = TRUE
             ELSE /\ disconnection_time' =
                        IF was_connected THEN transmission_count'
                        ELSE disconnection_time
                  /\ was_connected' = FALSE
                  /\ reconnect_called' =
                        ShouldAttemptConnection(transmission_count',
                                                disconnection_time')
                  /\ send_called' = FALSE
                  /\ not_ready_run' = not_ready_run + 1
                  /\ UNCHANGED seen_ready
    /\ UNCHANGED <<wt_pc, beside_cadence>>

NextCadence == wifi_task_startup \/ wifi_task_cycle

SpecCadence == Init /\ [][NextCadence]_vars

(***************************************************************************)
(* Termination of dht11_read.  The polling loop of wait_for_pin_state is   *)
(* spelled out: at every pass the line shows either level, whatever the    *)
(* sensor does (stuck low, stuck high, toggling, disconnected), and the    *)
(* microsecond clock has advanced by at least 1.  What the frame holds     *)
(* plays no part: the checksum passes or fails.                            *)
(***************************************************************************)
\* what the steps below never touch
beside_wait == <<driver, bit_vars, wifi_vars, sys_vars, cadence_vars>>

\* the waits of one attempt, and the level each waits for
WaitPhases == {"ack_low", "ack_high", "bit_low", "bit_high", "bit_end"}
ExpectedLevel(phase) == IF phase \in {"ack_low", "bit_low", "bit_end"} THEN 0 ELSE 1
WaitTimeout(phase) ==
    IF phase \in {"ack_low", "ack_high"} THEN DHT11_RESPONSE_TIMEOUT
    ELSE DHT11_BIT_TIMEOUT

\* the time one pass of the polling loop takes: esp_rom_delay_us(1) and the
\* calls around it
PollPeriods == 1..MaxPollPeriod

\* RetryLoopContinues of a loop that retries until an attempt succeeds
RetryLoopUnbounded(a) == TRUE

\* attempt <= DHT11_MAX_RETRIES, the test of the retry loop
RetryLoopContinues(a) == a <= DHT11_MAX_RETRIES

\* if (elapsed > timeout_us) return -1
WaitTimedOut(e, timeout_us) == e > timeout_us

\* a wait begins: start_time is taken, then esp_rom_delay_us(1)
EnterWait(phase) ==
    /\ rd_pc' = "wait"
    /\ rd_phase' = phase
    /\ elapsed' \in PollPeriods
    /\ wait_result' = 0

\* dht11_read is called
acquire_call ==
    /\ rd_pc = "idle"
    /\ rd_pc' = "loop_test"
    /\ rd_attempt' = 1
    /\ rd_phase' = None
    /\ rd_bits' = 0
    /\ elapsed' = 0
    /\ wait_result' = 0
    /\ rd_attempts' = 0
    /\ UNCHANGED beside_wait

\* for (attempt = 1; attempt <= DHT11_MAX_RETRIES; ...): the next attempt
\* begins with its delays and the start signal, or dht11_read returns
acquire_loop_test ==
    /\ rd_pc = "loop_test"
    /\ IF RetryLoopContinues(rd_attempt)
       THEN /\ rd_attempts' = rd_attempts + 1
            /\ rd_bits' = 0
            /\ EnterWait("ack_low")
       ELSE /\ rd_pc' = "idle"
            /\ UNCHANGED <<rd_attempts, rd_bits, rd_phase, elapsed, wait_result>>
    /\ UNCHANGED <<rd_attempt, beside_wait>>

\* one pass of while (gpio_get_level(DHT11_DATA_PIN) != expected_level)
wait_for_pin_state ==
    /\ rd_pc = "wait"
    /\ \E level \in {0, 1}, period \in PollPeriods :
          IF level = ExpectedLevel(rd_phase)
          THEN /\ wait_result' = elapsed
               /\ elapsed' = 0
               /\ rd_pc' = "wait_ret"
          ELSE IF WaitTimedOut(elapsed, WaitTimeout(rd_phase))
          THEN /\ wait_result' = -1
               /\ elapsed' = 0
               /\ rd_pc' = "wait_ret"
          ELSE /\ elapsed' =
                     IF elapsed + period > WaitTimeout(rd_phase) + MaxPollPeriod
                     THEN WaitTimeout(rd_phase) + MaxPollPeriod
                     ELSE elapsed + period
               /\ UNCHANGED <<rd_pc, wait_result>>
    /\ UNCHANGED <<rd_attempt, rd_phase, rd_bits, rd_attempts, beside_wait>>

\* the caller of wait_for_pin_state goes on: a timeout or an implausible
\* pulse ends the attempt, the 40th bit ends it with the checksum test
wait_returns ==
    /\ rd_pc = "wait_ret"
    /\ IF wait_result < 0
       THEN /\ rd_pc' = "attempt_failed"
            /\ wait_result' = 0
            /\ UNCHANGED <<rd_phase, rd_bits, elapsed>>
       ELSE IF rd_phase = "ack_low" THEN EnterWait("ack_high") /\ UNCHANGED rd_bits
       ELSE IF rd_phase = "ack_high" THEN EnterWait("bit_low") /\ UNCHANGED rd_bits
       ELSE IF rd_phase = "bit_low" THEN EnterWait("bit_high") /\ UNCHANGED rd_bits
       ELSE IF rd_phase = "bit_high" THEN EnterWait("bit_end") /\ UNCHANGED rd_bits
       ELSE IF ReadBitValue(0, 0, wait_result) < 0
       THEN /\ rd_pc' = "attempt_failed"
            /\ wait_result' = 0
            /\ UNCHANGED <<rd_phase, rd_bits, elapsed>>
       ELSE /\ rd_bits' = rd_bits + 1
            /\ IF rd_bits + 1 < FRAME_BYTES * BITS_PER_BYTE
               THEN EnterWait("bit_low")
               ELSE /\ rd_pc' \in {"attempt_ok", "attempt_failed"}
                    /\ wait_result' = 0
                    /\ UNCHANGED <<rd_phase, elapsed>>
    /\ UNCHANGED <<rd_attempt, rd_attempts, beside_wait>>

\* dht11_read_attempt has returned: ESP_OK ends the call, ESP_FAIL leads
\* through the retry delay to attempt++
acquire_attempt_ret ==
    /\ rd_pc \in {"attempt_ok", "attempt_failed"}
    /\ IF rd_pc = "attempt_ok"
       THEN rd_pc' = "idle" /\ UNCHANGED rd_attempt
       ELSE rd_pc' = "loop_test" /\ rd_attempt' = rd_attempt + 1
    /\ UNCHANGED <<rd_phase, rd_bits, elapsed, wait_result, rd_attempts,
                   beside_wait>>

\* the steps dht11_read takes by itself once it is called
AcquireRuns ==
    \/ acquire_loop_test
    \/ wait_for_pin_state
    \/ wait_returns
    \/ acquire_attempt_ret

NextAcquire == acquire_call \/ AcquireRuns

\* the task that called dht11_read keeps running: interrupts are off during
\* the waits, and vTaskDelay returns
SpecAcquire == Init /\ [][NextAcquire]_vars /\ WF_vars(AcquireRuns)

(***************************************************************************)
(* The WiFi manager (components/wifi_manager/wifi_manager.c) between the   *)
(* task that calls it and the WiFi driver of ESP-IDF.  The driver is the   *)
(* environment: a connection attempt it was asked for ends with an IP      *)
(* address or with a disconnect event, a connection that is up may be      *)
(* lost, and its events reach wifi_event_handler in the order they were    *)
(* posted, on the event-loop task, between any two steps of the caller.    *)
(***************************************************************************)
\* what the steps below never touch
beside_manager == <<driver, bit_vars, wait_vars, sys_vars, cadence_vars>>

\* ap_info.rssi as esp_wifi_sta_get_ap_info reports it, in dBm
RssiValues == {-45, -70}

\* the record of wifi_manager_get_rssi before any call of it
NoRssi == <<"DISCONNECTED", 0>>

\* the event is posted to the event loop
Post(e) == Len(events) < MaxEvents /\ events' = Append(events, e)

\* esp_wifi_connect(): a station that is not up starts to connect
DriverConnect == link' = IF link = "up" THEN "up" ELSE "connecting"

\* a call of the manager has returned r, the status being `status`
Returned(call, r, status) ==
    /\ api_call' = call
    /\ api_ret' = r
    /\ status_at_ret' = status
    /\ rssi_ret' = NoRssi
    /\ send_null' = FALSE

\* wifi_manager_init: the event group is created and the handler registered
manager_init ==
    /\ api_pc = "uninit"
    /\ \E created \in BOOLEAN :
          IF created
          THEN api_pc' = "idle" /\ Returned("init", "ESP_OK", current_status)
          ELSE UNCHANGED api_pc /\ Returned("init", "ESP_FAIL", current_status)
    /\ UNCHANGED <<manager_state, wifi_driver, disconnected_by_call, beside_manager>>

\* wifi_manager_connect up to xEventGroupWaitBits: the state is reset, the
\* bits are cleared and esp_wifi_start posts WIFI_EVENT_STA_START; a driver
\* that is started already may post none
manager_connect ==
    /\ api_pc = "idle"
    /\ retry_count' = 0
    /\ current_status' = "CONNECTING"
    /\ event_bits' = {}
    /\ wifi_started' = TRUE
    /\ \/ Post("STA_START")
       \/ wifi_started /\ UNCHANGED events
    /\ api_pc' = "connect_wait"
    /\ disconnected_by_call' = FALSE
    /\ UNCHANGED <<current_rssi, link, api_call, api_ret, rssi_ret,
                   status_at_ret, send_null, beside_manager>>

\* if (bits & WIFI_CONNECTED_BIT) ... else if (bits & WIFI_FAIL_BIT) ...
ConnectResult(bits) == IF "CONNECTED" \in bits THEN "ESP_OK" ELSE "ESP_FAIL"

\* xEventGroupWaitBits returns as soon as a bit is set, and
\* wifi_manager_connect returns
manager_connect_returns ==
    /\ api_pc = "connect_wait"
    /\ event_bits # {}
    /\ api_pc' = "idle"
    /\ Returned("connect", ConnectResult(event_bits), current_status)
    /\ UNCHANGED <<manager_state, wifi_driver, disconnected_by_call, beside_manager>>

\* wifi_manager_disconnect: esp_wifi_disconnect fails on a driver that is
\* not started; otherwise the station goes down, which the driver reports
\* with WIFI_EVENT_STA_DISCONNECTED
manager_disconnect ==
    /\ api_pc = "idle"
    /\ IF wifi_started
       THEN /\ current_status' = "DISCONNECTED"
            /\ current_rssi' = 0
            /\ link' = "down"
            /\ IF link # "down" THEN Post("STA_DISCONNECTED") ELSE UNCHANGED events
            /\ disconnected_by_call' = TRUE
            /\ Returned("disconnect", "ESP_OK", "DISCONNECTED")
       ELSE /\ Returned("disconnect", "ESP_ERR_WIFI_NOT_STARTED", current_status)
            /\ UNCHANGED <<current_status, current_rssi, link, events,
                           disconnected_by_call>>
    /\ UNCHANGED <<retry_count, event_bits, wifi_started, api_pc, beside_manager>>

\* SendDataResult without the check of the argument
SendDataResultUnchecked(status, data_null, http) ==
    IF status # "CONNECTED" THEN "ESP_FAIL" ELSE http

\* wifi_manager_send_data: the connection is checked first, the argument
\* second, then the request is made and gives `http`
SendDataResult(status, data_null, http) ==
    IF status # "CONNECTED" THEN "ESP_FAIL"
    ELSE IF data_null THEN "ESP_ERR_INVALID_ARG"
    ELSE http

\* wifi_manager_send_data(data)
manager_send_data ==
    /\ api_pc = "idle"
    /\ \E data_null \in BOOLEAN, http \in {"ESP_OK", "ESP_FAIL"} :
          /\ api_call' = "send"
          /\ api_ret' = SendDataResult(current_status, data_null, http)
          /\ send_null' = data_null
    /\ rssi_ret' = NoRssi
    /\ status_at_ret' = current_status
    /\ UNCHANGED <<manager_state, wifi_driver, api_pc, disconnected_by_call,
                   beside_manager>>

\* wifi_manager_get_rssi(), by any task: the record keeps the status it was
\* called in
manager_get_rssi ==
    /\ api_pc # "uninit"
    /\ rssi_ret' = <<current_status, current_rssi>>
    /\ UNCHANGED <<manager_state, wifi_driver, api_pc, api_call, api_ret,
                   status_at_ret, send_null, disconnected_by_call, beside_manager>>

\* OnDisconnected that retries once more: retry_count <= WIFI_RETRY_COUNT
OnDisconnectedOneMore ==
    IF retry_count <= WIFI_RETRY_COUNT
    THEN /\ DriverConnect
         /\ retry_count' = retry_count + 1
         /\ current_status' = "CONNECTING"
         /\ UNCHANGED <<current_rssi, event_bits>>
    ELSE /\ event_bits' = event_bits \cup {"FAIL"}
         /\ current_status' = "ERROR"
         /\ current_rssi' = 0
         /\ UNCHANGED <<retry_count, link>>

\* the handler on WIFI_EVENT_STA_DISCONNECTED: another attempt while
\* retries are left, the failure bit after the last one
OnDisconnected ==
    IF retry_count < WIFI_RETRY_COUNT
    THEN /\ DriverConnect
         /\ retry_count' = retry_count + 1
         /\ current_status' = "CONNECTING"
         /\ UNCHANGED <<current_rssi, event_bits>>
    ELSE /\ event_bits' = event_bits \cup {"FAIL"}
         /\ current_status' = "ERROR"
         /\ current_rssi' = 0
         /\ UNCHANGED <<retry_count, link>>

\* wifi_event_handler, run by the event loop on the oldest event posted
wifi_event_handler ==
    /\ events # <<>>
    /\ events' = Tail(events)
    /\ CASE Head(events) = "STA_START" ->
              /\ DriverConnect
              /\ current_status' = "CONNECTING"
              /\ UNCHANGED <<current_rssi, retry_count, event_bits>>
         [] Head(events) = "STA_DISCONNECTED" -> OnDisconnected
         [] Head(events) = "GOT_IP" ->
              /\ retry_count' = 0
              /\ current_status' = "CONNECTED"
              /\ event_bits' = event_bits \cup {"CONNECTED"}
              /\ current_rssi' \in (IF link = "up" THEN RssiValues \cup {0} ELSE {0})
              /\ UNCHANGED link
    /\ UNCHANGED <<wifi_started, api_pc, api_hist, beside_manager>>

\* the driver: the attempt asked for by esp_wifi_connect gets an address
driver_got_ip ==
    /\ link = "connecting"
    /\ link' = "up"
    /\ Post("GOT_IP")
    /\ UNCHANGED <<manager_state, wifi_started, api_pc, api_hist, beside_manager>>

\* the driver: the attempt fails, or the connection that was up is lost
driver_disconnected ==
    /\ link \in {"connecting", "up"}
    /\ link' = "down"
    /\ Post("STA_DISCONNECTED")
    /\ UNCHANGED <<manager_state, wifi_started, api_pc, api_hist, beside_manager>>

NextWifi ==
    \/ manager_init
    \/ manager_connect
    \/ manager_connect_returns
    \/ manager_disconnect
    \/ manager_send_data
    \/ manager_get_rssi
    \/ wifi_event_handler
    \/ driver_got_ip
    \/ driver_disconnected

SpecWifi == Init /\ [][NextWifi]_vars

(***************************************************************************)
(* Properties                                                              *)
(***************************************************************************)
\* integer_byte + fractional_byte / 10.0 for both quantities, in tenths
ExpectedReading(f) ==
    [temperature |-> f[3] * 10 + f[4],
     humidity    |-> f[1] * 10 + f[2],
     valid       |-> TRUE]

\* the sum of the four data bytes modulo 256 equals the fifth byte
FrameChecksumValid(f) == (f[1] + f[2] + f[3] + f[4]) % 256 = f[5]

\* C1: when the cache held a valid reading R as the call began and every
\* attempt of the call failed, dht11_read returns after exactly
\* DHT11_MAX_RETRIES attempts with ESP_OK and a copy of R (same temperature
\* and humidity) whose valid flag is false; no call ever makes more attempts.
C1_RetryExhaustionFallback ==
    /\ n_attempts <= DHT11_MAX_RETRIES
    /\ (pc = "read_ret" /\ call_cache.valid /\ ~fresh) =>
          /\ n_attempts = DHT11_MAX_RETRIES
          /\ read_ret = "ESP_OK"
          /\ data.temperature = call_cache.temperature
          /\ data.humidity = call_cache.humidity
          /\ data.valid = FALSE

\* the documented scenario: R = {t = 22.5, h = 41} comes back stale
C1_Witness ==
    /\ pc = "read_ret"
    /\ ~fresh
    /\ n_attempts = DHT11_MAX_RETRIES
    /\ call_cache = [temperature |-> 225, humidity |-> 410, valid |-> TRUE]
    /\ data = [temperature |-> 225, humidity |-> 410, valid |-> FALSE]

\* C2: with a cache that was never written and every attempt failing,
\* dht11_read returns ESP_FAIL after DHT11_MAX_RETRIES attempts, and an
\* accessor called in that state produces its placeholder string.
C2_ColdStartFailure ==
    /\ (pc = "read_ret" /\ ~call_cache.valid /\ ~fresh) =>
          /\ read_ret = "ESP_FAIL"
          /\ n_attempts = DHT11_MAX_RETRIES
          /\ last_good = NoFrame
    /\ (pc = "idle" /\ ret = "ESP_OK" /\ ~call_cache.valid /\ ~fresh) =>
          /\ (caller = "temp" => buffer = "--.-C")
          /\ (caller = "hum" => buffer = "--%")

C2_Witness ==
    /\ pc = "idle"
    /\ caller = "temp"
    /\ ret = "ESP_OK"
    /\ read_ret = "ESP_FAIL"
    /\ n_attempts = DHT11_MAX_RETRIES
    /\ ~last_reading.valid
    /\ buffer = "--.-C"

\* C3: a call in which an attempt failed and a later attempt decoded a
\* checksum-valid frame F returns the reading of F with valid = true and
\* leaves the cache equal to it; the next call, if all its attempts fail,
\* returns that temperature and humidity with valid = false.
C3_CorruptedFrameRecovery ==
    /\ (pc = "read_ret" /\ fresh /\ last_fail # None) =>
          /\ read_ret = "ESP_OK"
          /\ FrameChecksumValid(last_good)
          /\ data = ExpectedReading(last_good)
          /\ last_reading = data
    /\ (pc = "read_ret" /\ ~fresh /\ prev_recovered.valid) =>
          /\ read_ret = "ESP_OK"
          /\ data.temperature = prev_recovered.temperature
          /\ data.humidity = prev_recovered.humidity
          /\ data.valid = FALSE

\* the documented scenario: [65,0,20,0,85] was recovered by the previous call
\* and comes back stale from an all-failing call
C3_Witness ==
    /\ pc = "read_ret"
    /\ ~fresh
    /\ last_fail = "checksum_mismatch"
    /\ last_good = <<65, 0, 20, 0, 85>>
    /\ prev_recovered = [temperature |-> 200, humidity |-> 650, valid |-> TRUE]
    /\ data = [temperature |-> 200, humidity |-> 650, valid |-> FALSE]

\* C4: an attempt that has read all 40 bits accepts the frame (returns
\* ESP_OK with a valid reading) iff the sum of the four data bytes modulo 256
\* equals the fifth byte; a mismatching frame fails the attempt and leaves the
\* attempt's reading invalid.
C4_ChecksumInvariant ==
    (pc = "attempt_ret" /\ att_err \in {"ok", "checksum_mismatch"}) =>
        /\ bit_idx = FRAME_BYTES * BITS_PER_BYTE
        /\ (att_result = "ESP_OK") <=> FrameChecksumValid(raw_data)
        /\ data.valid <=> FrameChecksumValid(raw_data)
        /\ att_result \in {"ESP_OK", "ESP_FAIL"}

\* a frame whose byte sum wraps (200 + 56 = 256) is accepted with checksum 0
C4_Witness ==
    /\ pc = "attempt_ret"
    /\ raw_data = <<200, 56, 0, 0, 0>>
    /\ att_result = "ESP_OK"
    /\ data.valid

\* C5: dht11_read returns a reading with valid = true only if an attempt of
\* that call decoded a checksum-valid frame, and the reading then equals the
\* cache; a call none of whose attempts passed the checksum returns a reading
\* whose valid flag is false.
C5_ValidFlagMeaning ==
    pc = "read_ret" =>
        /\ data.valid =>
              /\ fresh
              /\ read_ret = "ESP_OK"
              /\ FrameChecksumValid(last_good)
              /\ data = ExpectedReading(last_good)
              /\ data = last_reading
        /\ ~fresh => ~data.valid

\* a fresh reading on the first attempt
C5_Witness ==
    /\ pc = "read_ret"
    /\ fresh
    /\ n_attempts = 1
    /\ data = [temperature |-> 225, humidity |-> 410, valid |-> TRUE]
    /\ last_reading = data

\* C6: the cache is the all-zero invalid sentinel as long as no attempt has
\* passed the checksum, and otherwise exactly the reading, valid = true, of
\* the most recent attempt that passed it: failing attempts, the stale
\* fallback and the accessors never change it.
C6_CacheIntegrity ==
    /\ last_good = NoFrame => last_reading = ZeroReading
    /\ last_good # NoFrame =>
          /\ FrameChecksumValid(last_good)
          /\ last_reading = ExpectedReading(last_good)

\* a call that began with a cached 20.0 / 65 % saw a checksum mismatch and
\* fell back: the cache is still that reading
C6_Witness ==
    /\ pc = "read_ret"
    /\ ~fresh
    /\ last_fail = "checksum_mismatch"
    /\ caller = "hum"
    /\ last_reading = [temperature |-> 200, humidity |-> 650, valid |-> TRUE]

LineIdle == pin_mode = "OUTPUT_OD" /\ pin_out = 1

\* positions of an attempt between the switch to input and the line release
InputPositions == {"ack_low", "ack_high", "bits", "end_critical"}

\* positions of an attempt from the start sequence to the end of the
\* critical timing section
CriticalPositions ==
    {"start_low", "start_high", "set_input", "ack_low", "ack_high", "bits",
     "end_critical"}

\* C8: whenever an attempt has returned, by any exit path, and until the
\* next attempt starts, the data line is an open-drain output at level high;
\* the line is in input mode only inside an attempt.
C8_LineReleased ==
    /\ pc \in {"attempt_ret", "retry_delay", "exhausted", "read_ret"} => LineIdle
    /\ (pc = "idle" /\ initialized) => LineIdle
    /\ pin_mode = "INPUT" => pc \in InputPositions

\* the last of the 40 bit reads failed and the line is idle again
C8_Witness ==
    /\ pc = "attempt_ret"
    /\ att_err = "bit_error"
    /\ bit_idx = FRAME_BYTES * BITS_PER_BYTE - 1
    /\ LineIdle

\* C9: from the start sequence through the acknowledgment waits and all bit
\* reads, interrupts are disabled.
C9_InterruptsSuspended ==
    pc \in CriticalPositions => ~irq_enabled

\* all 40 bits have been read and interrupts are still disabled
C9_Witness ==
    /\ pc = "end_critical"
    /\ bit_idx = FRAME_BYTES * BITS_PER_BYTE
    /\ ~irq_enabled

\* C10: outside the critical timing section, so whenever an attempt or
\* dht11_read has returned, interrupts are enabled.
C10_InterruptsRestored ==
    pc \notin CriticalPositions => irq_enabled

\* the acknowledgment-high wait timed out and interrupts are enabled again
C10_Witness ==
    /\ pc = "attempt_ret"
    /\ att_err = "ack_high_timeout"
    /\ irq_enabled

\* the strings the accessors can format from the readings of the sensor's frames
TemperatureStrings == { FormatTemperature(10 * q[3] + q[4]) : q \in DataQuads }
HumidityStrings == { FormatHumidity(10 * q[1] + q[2]) : q \in DataQuads }

\* the placeholder of an accessor, and the string it formats from a reading
Placeholder(who) == IF who = "temp" THEN "--.-C" ELSE "--%"
Formatted(who, r) ==
    IF who = "temp" THEN FormatTemperature(r.temperature)
    ELSE FormatHumidity(r.humidity)

\* an accessor call has returned
AccessorReturned == pc = "idle" /\ caller \in {"temp", "hum"}

\* C11 as stated: every accessor call, whatever its arguments and whatever
\* the cache and the sensor do, returns ESP_OK and has produced a formatted
\* value or the placeholder.
C11_AccessorsNeverFail_AsStated ==
    AccessorReturned =>
        /\ ret = "ESP_OK"
        /\ buffer \in TemperatureStrings \cup HumidityStrings
                         \cup {"--.-C", "--%"}

\* C11 (amended): every accessor call that is given a non-NULL buffer of at
\* least 8 bytes (temperature) or 6 bytes (humidity) returns ESP_OK, whatever
\* the cache and the sensor do, and has produced a formatted value or the
\* placeholder; a call given a NULL or smaller buffer returns
\* ESP_ERR_INVALID_ARG and produces nothing.
C11_AccessorsNeverFail ==
    /\ (AccessorReturned /\ buffer_ok) =>
          /\ ret = "ESP_OK"
          /\ caller = "temp" => buffer \in TemperatureStrings \cup {"--.-C"}
          /\ caller = "hum" => buffer \in HumidityStrings \cup {"--%"}
    /\ (AccessorReturned /\ ~buffer_ok) =>
          /\ ret = "ESP_ERR_INVALID_ARG"
          /\ buffer = ""

\* the humidity accessor returns ESP_OK with its placeholder after three
\* failed attempts on an empty cache
C11_Witness ==
    /\ AccessorReturned
    /\ caller = "hum"
    /\ buffer_ok
    /\ read_ret = "ESP_FAIL"
    /\ ret = "ESP_OK"
    /\ buffer = "--%"

\* C12 as stated: every accessor call makes exactly one dht11_read call,
\* formats the reading it returned, and produces the placeholder exactly when
\* it returned ESP_FAIL.
C12_AccessorsUseAcquire_AsStated ==
    AccessorReturned =>
        /\ n_reads = 1
        /\ (read_ret = "ESP_FAIL") <=> (buffer = Placeholder(caller))
        /\ read_ret = "ESP_OK" => buffer = Formatted(caller, data)

\* C12 (amended): every accessor call given a non-NULL buffer of at least the
\* accessor's minimum size makes exactly one dht11_read call, of 1 to
\* DHT11_MAX_RETRIES attempts; it formats the reading that call returned (the
\* fresh reading when valid, otherwise the values of the cache), and it
\* produces the placeholder exactly when that call returned ESP_FAIL.  A call
\* given a NULL or smaller buffer makes no dht11_read call.
C12_AccessorsUseAcquire ==
    /\ (AccessorReturned /\ buffer_ok) =>
          /\ n_reads = 1
          /\ n_attempts \in 1..DHT11_MAX_RETRIES
          /\ (read_ret = "ESP_FAIL") <=> (buffer = Placeholder(caller))
          /\ read_ret = "ESP_OK" =>
                /\ buffer = Formatted(caller, data)
                /\ data.valid => data = ExpectedReading(last_good)
                /\ ~data.valid =>
                      /\ call_cache.valid
                      /\ data.temperature = call_cache.temperature
                      /\ data.humidity = call_cache.humidity
    /\ (AccessorReturned /\ ~buffer_ok) => n_reads = 0

\* the temperature accessor formats the cached 22.5 after a call whose
\* attempts all failed
C12_Witness ==
    /\ AccessorReturned
    /\ caller = "temp"
    /\ buffer_ok
    /\ n_attempts = DHT11_MAX_RETRIES
    /\ read_ret = "ESP_OK"
    /\ ~data.valid
    /\ buffer = "22.5C"

\* one of the three waits of a read_bit call timed out
TimedOut(w) == w[1] < 0 \/ w[2] < 0 \/ w[3] < 0

\* the high pulse was measured and is shorter than the floor or longer than
\* the ceiling
Implausible(w) == ~TimedOut(w) /\ (w[3] < 15 \/ w[3] > 100)

\* C13: for every measured high-pulse duration d in 15..100 microseconds
\* read_bit returns 1 when d > 50 and 0 when d <= 50, so a longer plausible
\* pulse never decodes to a smaller bit; for every measured d below 15 or
\* above 100 it returns the error value and never a bit.
C13_BitThresholdMonotonic ==
    (rb_waits # NoWaits /\ ~TimedOut(rb_waits)) =>
        LET d == rb_waits[3] IN
        /\ (d \in 15..100 /\ d > 50) => rb_result = 1
        /\ (d \in 15..100 /\ d <= 50) => rb_result = 0
        /\ (d < 15 \/ d > 100) => rb_result \notin {0, 1}
        /\ (/\ rb_prev[1] # NoWaits
            /\ rb_prev[2] \in {0, 1}
            /\ rb_result \in {0, 1}
            /\ rb_prev[1][3] <= d) => rb_prev[2] <= rb_result

\* a pulse of exactly the threshold decodes to 0 right after one of 51
\* microseconds decoded to 1
C13_Witness ==
    /\ rb_waits = <<50, 1, 50>>
    /\ rb_result = 0
    /\ rb_prev = << <<50, 1, 51>>, 1 >>

\* C14 as stated: a read_bit call that measured an implausible pulse width
\* and a call that timed out return different results.
C14_InvalidPulseDistinct_AsStated ==
    (/\ rb_waits # NoWaits
     /\ rb_prev[1] # NoWaits
     /\ Implausible(rb_waits)
     /\ TimedOut(rb_prev[1])) => rb_result # rb_prev[2]

\* C14 (amended): read_bit reports an implausible pulse width (measured but
\* below the floor or above the ceiling) as a failure and never as a bit
\* value; it returns the same value -1 for it as for a plain timeout, and it
\* returns -1 in no other case.
C14_InvalidPulseRejected ==
    rb_waits # NoWaits =>
        /\ rb_result \in {-1, 0, 1}
        /\ (rb_result = -1) <=> (TimedOut(rb_waits) \/ Implausible(rb_waits))
        /\ (/\ rb_prev[1] # NoWaits
            /\ Implausible(rb_waits)
            /\ TimedOut(rb_prev[1])) => rb_result = rb_prev[2]

\* a pulse of 14 microseconds is rejected right after a call whose third
\* wait timed out
C14_Witness ==
    /\ rb_waits = <<50, 1, 14>>
    /\ rb_result = -1
    /\ rb_prev = << <<50, 1, -1>>, -1 >>

\* the value of the eight bits that arrived for byte i (1..5) of the running
\* attempt, the first-arrived bit weighing 128
ByteOfArrivedBits(i) ==
    LET b(j) == FrameBit(sensor_frame, 8 * (i - 1) + j)
    IN  128 * b(0) + 64 * b(1) + 32 * b(2) + 16 * b(3)
          + 8 * b(4) + 4 * b(5) + 2 * b(6) + b(7)

\* every bit read of the attempt has succeeded
AllBitsRead ==
    \/ pc \in {"end_critical", "checksum"}
    \/ pc = "attempt_ret" /\ att_err \in {"ok", "checksum_mismatch"}

\* C15: an attempt never reads more than 40 bits; when all its bit reads
\* succeeded read_bit was called exactly 40 times and byte i (0..4) of
\* raw_data is the value of bits 8i..8i+7 in arrival order, the first-arrived
\* bit being the most significant.
C15_FrameAssembly ==
    /\ bit_idx <= 40
    /\ AllBitsRead =>
          /\ bit_idx = 40
          /\ \A i \in 1..5 : raw_data[i] = ByteOfArrivedBits(i)

\* the 40 bits of [41, 0, 22, 5, 68] have been assembled
C15_Witness ==
    /\ pc = "end_critical"
    /\ bit_idx = 40
    /\ sensor_frame = <<41, 0, 22, 5, 68>>
    /\ raw_data = <<41, 0, 22, 5, 68>>

\* C16: when the k-th bit read (1 <= k <= 40) of an attempt fails, exactly
\* k - 1 bits were read and none after it (the bytes not yet begun are still
\* zero), the attempt returns ESP_FAIL, the attempt's reading is the all-zero
\* invalid reading whatever bytes were assembled, and the cache is what it
\* was when the call began.
C16_NoPartialFrames ==
    (pc = "attempt_ret" /\ att_err = "bit_error") =>
        /\ bit_idx \in 0..39
        /\ \A i \in 1..5 : 8 * (i - 1) >= bit_idx => raw_data[i] = 0
        /\ att_result = "ESP_FAIL"
        /\ data = ZeroReading
        /\ last_reading = call_cache
        /\ ~fresh

\* the 40th bit read failed after the bytes 41, 0, 22, 5 had been assembled,
\* with 20.0 / 65 % in the cache
C16_Witness ==
    /\ pc = "attempt_ret"
    /\ att_err = "bit_error"
    /\ bit_idx = 39
    /\ raw_data[1] = 41
    /\ raw_data[3] = 22
    /\ data = ZeroReading
    /\ last_reading = [temperature |-> 200, humidity |-> 650, valid |-> TRUE]

\* C17: an attempt that accepts the frame [h_int, h_frac, t_int, t_frac, c]
\* hands back humidity 10 * h_int + h_frac and temperature
\* 10 * t_int + t_frac tenths with valid = true; a temperature accessor call
\* that read a fresh frame renders that temperature with one decimal and the
\* suffix C, so [41, 0, 22, 5, 68] gives humidity 41.0, temperature 22.5 and
\* the string "22.5C".
C17_ByteToReading ==
    /\ (pc = "attempt_ret" /\ att_err = "ok") =>
          /\ data.humidity = 10 * raw_data[1] + raw_data[2]
          /\ data.temperature = 10 * raw_data[3] + raw_data[4]
          /\ data.valid
          /\ raw_data = <<41, 0, 22, 5, 68>> =>
                data = [temperature |-> 225, humidity |-> 410, valid |-> TRUE]
    /\ (AccessorReturned /\ caller = "temp" /\ buffer_ok /\ fresh) =>
          /\ buffer = FormatTemperature(10 * last_good[3] + last_good[4])
          /\ last_good = <<41, 0, 22, 5, 68>> => buffer = "22.5C"

\* the temperature accessor has read [41, 0, 22, 5, 68] and rendered 22.5C
C17_Witness ==
    /\ AccessorReturned
    /\ caller = "temp"
    /\ fresh
    /\ last_good = <<41, 0, 22, 5, 68>>
    /\ data = [temperature |-> 225, humidity |-> 410, valid |-> TRUE]
    /\ buffer = "22.5C"

\* a dht11_init call has returned
InitReturned == pc = "idle" /\ caller = "init"

\* C18: a dht11_init call that follows a dht11_init call that returned
\* ESP_OK returns ESP_OK too; after every dht11_init that returned ESP_OK the
\* data line is an open-drain output at level high; and a dht11_init call, a
\* second one included, leaves the cache as it found it.
C18_IdempotentInit ==
    InitReturned =>
        /\ ret = init_rets[Len(init_rets)]
        /\ ret = "ESP_OK" => LineIdle
        /\ (Len(init_rets) = 2 /\ init_rets[1] = "ESP_OK") =>
              /\ ret = "ESP_OK"
              /\ LineIdle
        /\ last_reading = init_cache

\* dht11_init was called twice in a row with 22.5 / 41 % in the cache
C18_Witness ==
    /\ InitReturned
    /\ init_rets = <<"ESP_OK", "ESP_OK">>
    /\ LineIdle
    /\ last_reading = [temperature |-> 225, humidity |-> 410, valid |-> TRUE]

\* the steps of system_init up to and including dht11_init
StepsUpToDht11Init == {"init_shared_data", "st7789_init", "dht11_init"}

\* C19: in every run of the application a dht11_read is executed, and the
\* sensor task exists, only after dht11_init has returned ESP_OK; when
\* dht11_init or an earlier step of system_init fails, app_main returns, the
\* sensor task is never created and no dht11_read is ever executed.
C19_InitPrecedesAcquisition ==
    /\ acquired => initialized
    /\ sensor_pc # "none" => initialized
    /\ failed_step \in StepsUpToDht11Init =>
          /\ main_pc = "halted"
          /\ sensor_pc = "none"
          /\ wifi_pc = "none"
          /\ ~acquired

\* the first dht11_read of a run has decoded 22.5 / 41 % after dht11_init
\* returned ESP_OK
C19_Witness ==
    /\ acquired
    /\ initialized
    /\ sensor_pc = "evaluate"
    /\ consecutive_failures = 0
    /\ shared_data = ZeroShared
    /\ sensor_reading = [temperature |-> 225, humidity |-> 410, valid |-> TRUE]

\* C20: every xSemaphoreTake on the shared-data mutex, by either task, is
\* given the finite block time of 100 ms; a task waiting for the mutex can
\* always take a step (it gets the mutex or its wait times out), so neither
\* task blocks forever and the holder is always inside its short critical
\* section; and when a take of the sensor task times out, the shared reading
\* is what it was when the cycle began, the cycle has not updated the
\* display, and the task is at its vTaskDelayUntil, from which the next cycle
\* starts.
C20_BoundedLockAcquisition ==
    /\ \A w \in take_waits : ~w.forever /\ w.ms = 100
    /\ sensor_pc \in {"write_take", "read_take"} =>
          ENABLED (sensor_write_take \/ sensor_read_take)
    /\ wifi_pc = "take" => ENABLED wifi_take
    /\ mutex = "sensor" => sensor_pc \in {"write_cs", "read_cs"}
    /\ mutex = "wifi" => wifi_pc = "cs"
    /\ take_failed =>
          /\ sensor_pc = "delay"
          /\ shared_data = cycle_shared
          /\ ~displayed
          /\ ENABLED sensor_delay

\* the sensor task decoded a fresh reading but its take timed out while the
\* WiFi task held the mutex
C20_Witness ==
    /\ take_failed
    /\ mutex = "wifi"
    /\ sensor_pc = "delay"
    /\ sensor_reading.valid
    /\ shared_data = cycle_shared
    /\ ~displayed

\* the pair a reader holds after safe_read_sensor_data gave it valid data
PairOf(d) == <<d.temperature, d.humidity>>

\* C21: in every interleaving of sensor_task and wifi_task, the
\* (temperature, humidity) pair a reader has obtained from shared_data is the
\* pair of one single write of sensor_task, never the temperature of one
\* reading with the humidity of another.  The readers are wifi_task, once
\* safe_read_sensor_data has returned valid data, and sensor_task, once it
\* has copied the last known data to show them.
C21_ConsistentSnapshot ==
    /\ (wifi_pc = "send" /\ has_valid_data) => PairOf(wifi_data) \in written
    /\ (sensor_pc = "delay" /\ last_data # NoData) => PairOf(last_data) \in written
    /\ (mutex = "free" /\ shared_data.data.valid) =>
          PairOf(shared_data.data) \in written

\* wifi_task has obtained one of two different readings written so far
\* while sensor_task waits for the mutex with another reading to write
C21_Witness ==
    /\ wifi_pc = "send"
    /\ has_valid_data
    /\ Cardinality(written) = 2
    /\ sensor_pc = "write_take"
    /\ PairOf(sensor_reading) # PairOf(wifi_data)

\* C22: in every transmission cycle in which wifi_task has no valid reading
\* (shared_data holds no valid reading, or the mutex could not be taken) the
\* payload handed to wifi_manager_send_data carries -999.0 in the
\* temperature and in the humidity field; in every other cycle the two
\* fields carry the values of one shared reading.  wifi_pc = "delay" with
\* an outcome recorded is the cycle after wifi_manager_send_data.
C22_SentinelOnMissingData ==
    (wifi_pc = "delay" /\ wifi_outcome # None) =>
        IF wifi_outcome \in {"invalid", "timeout"}
        THEN /\ wifi_data.temperature = -9990
             /\ wifi_data.humidity = -9990
        ELSE /\ PairOf(wifi_data) \in written
             /\ wifi_data.temperature # -9990
             /\ wifi_data.humidity # -9990

\* a payload was sent after the mutex could not be taken, although a valid
\* reading had been written before
C22_Witness ==
    /\ wifi_pc = "delay"
    /\ wifi_outcome = "timeout"
    /\ PairOf(wifi_data) = <<-9990, -9990>>
    /\ written # {}

\* the two lines display_sensor_error draws
SensorErrorScreen == <<"SENS0R", "ERR0R!">>

\* sensor_task is in restart_system_due_to_sensor_failure
Restarting == sensor_pc \in {"restart_warning", "esp_restart"}

\* the counter counts the failed cycles, and the restart is under way
\* exactly when it is at the restart threshold
CounterAndRestart ==
    /\ (sensor_pc # "evaluate") => (consecutive_failures = fail_streak)
    /\ Restarting <=> (consecutive_failures = SENSOR_RESTART_COUNT_LIMIT)
    /\ consecutive_failures <= SENSOR_RESTART_COUNT_LIMIT
    /\ error_displayed <=> (consecutive_failures >= SENSOR_FAILURE_COUNT_LIMIT)
    /\ (ENABLED esp_restart) => Restarting

\* the error screen is drawn by the step that takes the counter to the warn
\* threshold, and by no other step
ErrorScreenAtThreshold ==
    /\ (/\ consecutive_failures' = SENSOR_FAILURE_COUNT_LIMIT
         /\ consecutive_failures # SENSOR_FAILURE_COUNT_LIMIT)
        => (display' = SensorErrorScreen)
    /\ (display' = SensorErrorScreen /\ display # SensorErrorScreen)
        => (consecutive_failures' = SENSOR_FAILURE_COUNT_LIMIT)

\* C23: sensor_task's counter is the number of consecutive failed cycles: a
\* cycle with a fresh valid reading resets it to zero and every other cycle
\* adds one.  The sensor-error screen is drawn in the step in which the
\* counter reaches SENSOR_FAILURE_COUNT_LIMIT.  The restart is triggered when
\* and only when the counter reaches SENSOR_RESTART_COUNT_LIMIT, never while
\* it is below.
C23_TwoThresholdCounter == []CounterAndRestart /\ [][ErrorScreenAtThreshold]_vars

\* the counter was reset by a fresh reading after the error screen, and has
\* since reached the restart threshold
C23_Witness ==
    /\ Restarting
    /\ consecutive_failures = SENSOR_RESTART_COUNT_LIMIT
    /\ written # {}
    /\ error_displayed

\* C24: the restart due to sensor failure is performed when dht11_read has
\* failed in 12 consecutive cycles (2 minutes at the 10-second interval), and
\* the sensor-error screen is shown after 6 consecutive failures (1 minute).
\* As stated in the comments of system_manager.c; the constants the code
\* compares with are 6 and 3.
C24_RestartAfterTwoMinutes_AsStated ==
    /\ Restarting => (fail_streak = 12)
    /\ error_displayed => (fail_streak >= 6)

\* dht11_read is inside one of its attempts
InAttempt == rd_pc \in {"wait", "wait_ret"}

\* C25: whatever the sensor line does, and assuming only that the
\* microsecond clock advances, every wait for a pin level ends by a match or
\* by its timeout, every attempt ends, and every dht11_read returns, after
\* at most DHT11_MAX_RETRIES attempts.
C25_Termination ==
    /\ (rd_pc = "wait") ~> (rd_pc = "wait_ret")
    /\ InAttempt ~> (rd_pc \in {"attempt_ok", "attempt_failed"})
    /\ (rd_pc # "idle") ~> (rd_pc = "idle")
    /\ [](rd_attempts <= DHT11_MAX_RETRIES)
    /\ []((rd_pc = "wait") => (elapsed <= WaitTimeout(rd_phase) + MaxPollPeriod))

\* the last wait of the last attempt has ended by its timeout after 39 bits
C25_Witness ==
    /\ rd_pc = "wait_ret"
    /\ wait_result = -1
    /\ rd_attempts = DHT11_MAX_RETRIES
    /\ rd_phase = "bit_end"
    /\ rd_bits = FRAME_BYTES * BITS_PER_BYTE - 1

\* C26 as the claim states it: wifi_manager_send_data returns
\* ESP_ERR_INVALID_ARG whenever its data pointer is NULL, in every
\* connection state
C26_NullRejectedInEveryState_AsStated ==
    (api_call = "send" /\ send_null) => (api_ret = "ESP_ERR_INVALID_ARG")

\* C26 (amended): wifi_manager_send_data returns ESP_ERR_INVALID_ARG
\* whenever its data pointer is NULL and the status is CONNECTED; while the
\* status is not CONNECTED it returns ESP_FAIL, whatever the pointer
C26_NullRejectedWhenConnected ==
    /\ (api_call = "send" /\ send_null /\ status_at_ret = "CONNECTED")
           => (api_ret = "ESP_ERR_INVALID_ARG")
    /\ (api_call = "send" /\ status_at_ret # "CONNECTED")
           => (api_ret = "ESP_FAIL")

C26_Witness ==
    /\ api_call = "send" /\ send_null
    /\ status_at_ret = "CONNECTED"
    /\ api_ret = "ESP_ERR_INVALID_ARG"

\* C27 as the claim states it: after wifi_manager_disconnect returned
\* ESP_OK the status is DISCONNECTED and stays so, and the manager starts
\* no connection attempt, until wifi_manager_connect is called
C27_StaysDisconnected_AsStated ==
    disconnected_by_call =>
        (current_status = "DISCONNECTED" /\ link # "connecting")

\* C28 as the claim states it: wifi_manager_get_rssi returns 0 whenever the
\* status is not CONNECTED; a non-zero RSSI is observable only while the
\* status is CONNECTED
C28_RssiZeroUnlessConnected_AsStated ==
    (rssi_ret[1] # "CONNECTED") => (rssi_ret[2] = 0)

\* C29 as the claim states it: wifi_manager_connect returns ESP_OK only
\* with the status CONNECTED at its return, and ESP_FAIL only with the
\* status ERROR at its return, in every interleaving with the event handler
C29_ResultMatchesStatus_AsStated ==
    (api_call = "connect") =>
        /\ (api_ret = "ESP_OK") => (status_at_ret = "CONNECTED")
        /\ (api_ret = "ESP_FAIL") => (status_at_ret = "ERROR")

\* positions of sensor_task inside a protocol attempt of dht11_read
InsideAttempt == {"critical", "release"}

\* C30 as the claim states it: system_stop never ends sensor_task inside a
\* protocol attempt, and after it interrupts are enabled, the data line is
\* an open-drain output at level high and no deleted task held the mutex
C30_StopCompletesRead_AsStated ==
    (main_pc = "stopped") =>
        /\ stopped_at.sensor \notin InsideAttempt
        /\ irq_enabled
        /\ LineIdle
        /\ stopped_at.mutex \notin {"sensor", "wifi"}

\* C31 as the claim states it: once system_start has been called after
\* system_stop, every safe_read_sensor_data and safe_write_sensor_data takes
\* a mutex that exists, and the system goes on running
C31_ResumeAfterStop_AsStated ==
    /\ (Takers # {}) => (mutex # "NULL")
    /\ main_pc # "panic"

\* an attempt of the running call has decoded a checksum-valid frame
AttemptSucceeded == pc = "attempt_ret" /\ att_result = "ESP_OK"

\* after a successful attempt the call is on its way out with that reading,
\* and a call that returns made as many attempts as the index of its first
\* successful one, or DHT11_MAX_RETRIES without any
AttemptsUpToFirstSuccess ==
    /\ fresh => /\ pc \in {"attempt_ret", "read_ret", "idle"}
                /\ n_attempts = attempt
                /\ data = ReadingOfFrame(last_good)
                /\ data.valid
    /\ (pc = "read_ret" /\ fresh) => (read_ret = "ESP_OK")
    /\ (pc = "read_ret" /\ ~fresh) => (n_attempts = DHT11_MAX_RETRIES)
    /\ n_attempts <= DHT11_MAX_RETRIES

\* the step after a successful attempt is the return of dht11_read
ReturnsAtOnce ==
    AttemptSucceeded =>
        (pc' = "read_ret" /\ read_ret' = "ESP_OK" /\ data' = data
         /\ n_attempts' = n_attempts /\ UNCHANGED <<gpio, last_reading>>)

\* C32: within one dht11_read call, as soon as an attempt decodes a
\* checksum-valid frame the call returns that reading, with no further
\* attempt and no inter-attempt delay; the number of attempts of a call is
\* the index of its first successful attempt, or DHT11_MAX_RETRIES if none
\* succeeds.
C32_ReturnOnFirstSuccess ==
    []AttemptsUpToFirstSuccess /\ [][ReturnsAtOnce]_vars

\* a call returns the reading of its second attempt, the first having failed
C32_Witness ==
    /\ pc = "read_ret"
    /\ fresh
    /\ n_attempts = 2
    /\ last_fail # None
    /\ read_ret = "ESP_OK"

\* an attempt of the running call has failed, by any of its exits
AttemptFailed == pc = "attempt_ret" /\ att_result = "ESP_FAIL"

\* the exits by which an attempt fails
FailureExits ==
    {"ack_low_timeout", "ack_high_timeout", "bit_error", "checksum_mismatch"}

\* a failed attempt has returned with the line released, and the delay
\* between two attempts runs with the line released
ReleasedBeforeDelay ==
    /\ AttemptFailed => (LineIdle /\ irq_enabled /\ att_err \in FailureExits)
    /\ (pc = "retry_delay") =>
          (LineIdle /\ irq_enabled /\ att_result = "ESP_FAIL"
           /\ attempt < DHT11_MAX_RETRIES)
    /\ (pc \in {"loop_test", "stabilize", "irq_off"}) => LineIdle

\* after a failed attempt that is not the last comes the delay, and the
\* loop goes to its next attempt from the delay only
DelayBeforeNextAttempt ==
    /\ (AttemptFailed /\ attempt < DHT11_MAX_RETRIES)
          => (pc' = "retry_delay" /\ UNCHANGED <<attempt, gpio>>)
    /\ (pc # "idle" /\ attempt' = attempt + 1 /\ attempt' <= DHT11_MAX_RETRIES)
          => (pc = "retry_delay" /\ pc' = "loop_test" /\ UNCHANGED gpio)
    /\ (pc' = "start_low" /\ pc # "start_low") => (pc = "irq_off" /\ LineIdle)

\* C33: on any attempt failure (no acknowledgment, decode timeout, invalid
\* pulse, checksum mismatch) dht11_read first has the line released to
\* idle, then waits the inter-attempt delay, then goes to the next attempt;
\* the start sequence of the next attempt never begins before the line was
\* released and the delay has elapsed.
C33_FailureHandlingOrder ==
    []ReleasedBeforeDelay /\ [][DelayBeforeNextAttempt]_vars

\* the second attempt failed on its checksum and the delay before the third
\* is running
C33_Witness ==
    /\ pc = "retry_delay"
    /\ attempt = 2
    /\ att_err = "checksum_mismatch"
    /\ LineIdle

\* the positions inside dht11_read_attempt
AttemptPositions ==
    {"stabilize", "irq_off", "start_low", "start_high", "set_input", "ack_low",
     "ack_high", "bits", "end_critical", "checksum"}

\* the order of the steps of an attempt: from each position, the positions
\* that can follow it
AttemptOrder ==
    { <<"stabilize", "irq_off">>, <<"irq_off", "start_low">>,
      <<"start_low", "start_high">>, <<"start_high", "set_input">>,
      <<"set_input", "ack_low">>, <<"ack_low", "ack_high">>,
      <<"ack_low", "attempt_ret">>, <<"ack_high", "bits">>,
      <<"ack_high", "attempt_ret">>, <<"bits", "bits">>,
      <<"bits", "end_critical">>, <<"bits", "attempt_ret">>,
      <<"end_critical", "checksum">>, <<"checksum", "attempt_ret">> }

\* what the steps of the start sequence do to the line
StartSequence ==
    /\ (pc = "start_low" /\ pc' # pc)
          => (pin_mode = "OUTPUT_OD" /\ pin_out' = 0 /\ UNCHANGED pin_mode)
    /\ (pc = "start_high" /\ pc' # pc)
          => (pin_out = 0 /\ pin_out' = 1 /\ UNCHANGED pin_mode)
    /\ (pc = "set_input" /\ pc' # pc)
          => (pin_out = 1 /\ pin_mode' = "INPUT")

\* every step of an attempt follows the order, and bits are stored by the
\* bit reads only
StepsInOrder ==
    /\ (pc \in AttemptPositions /\ <<pc, bit_idx>> # <<pc', bit_idx'>>)
          => (<<pc, pc'>> \in AttemptOrder)
    /\ (pc' = "stabilize" /\ pc # "stabilize") => (pc = "loop_test")
    /\ (bit_idx' > bit_idx) => (pc = "bits" /\ bit_idx' = bit_idx + 1)
    /\ StartSequence

\* no bit is read before both halves of the acknowledgment, none after an
\* acknowledgment timeout, and the checksum is evaluated on 40 bits
BitsAfterAcknowledgment ==
    /\ (pc \in AttemptPositions \ {"bits", "end_critical", "checksum"})
          => (bit_idx = 0)
    /\ (pc = "attempt_ret" /\ att_err \in {"ack_low_timeout", "ack_high_timeout"})
          => (bit_idx = 0 /\ att_result = "ESP_FAIL" /\ sensor_frame = NoFrame)
    /\ (pc \in {"end_critical", "checksum"})
          => (bit_idx = FRAME_BYTES * BITS_PER_BYTE)
    /\ (pc = "attempt_ret" /\ att_err \in {"checksum_mismatch", "ok"})
          => (bit_idx = FRAME_BYTES * BITS_PER_BYTE)
    /\ (pc = "bits") => (pin_mode = "INPUT" /\ pin_out = 1)

\* C34: every attempt performs, in this order, the stabilization delay,
\* drive line low, drive line high, switch line to input, wait for
\* acknowledgment low, wait for acknowledgment high, and only then the bit
\* reads; if either acknowledgment half times out the attempt fails without
\* reading any bit, and the checksum is evaluated only after all 40 bits.
C34_AttemptStepOrder ==
    []BitsAfterAcknowledgment /\ [][StepsInOrder]_vars

\* all 40 bits of a frame with a wrong checksum byte are read and the
\* checksum is about to be evaluated, in the third attempt of the call
C34_Witness ==
    /\ pc = "checksum"
    /\ bit_idx = FRAME_BYTES * BITS_PER_BYTE
    /\ ~ChecksumAccepts(raw_data)
    /\ attempt = DHT11_MAX_RETRIES

\* wifi_event_handler runs on the event e
Handles(e) == events # <<>> /\ Head(events) = e /\ events' = Tail(events)

\* what the handler does with retry_count on the two events that touch it
RetryCounting ==
    /\ (Handles("STA_DISCONNECTED") /\ retry_count < WIFI_RETRY_COUNT)
          => /\ retry_count' = retry_count + 1
             /\ current_status' = "CONNECTING"
             /\ link' # "down"
             /\ event_bits' = event_bits
    /\ (Handles("STA_DISCONNECTED") /\ retry_count = WIFI_RETRY_COUNT)
          => /\ current_status' = "ERROR"
             /\ "FAIL" \in event_bits'
             /\ UNCHANGED <<retry_count, link>>
    /\ (current_status' = "ERROR" /\ current_status # "ERROR")
          => (Handles("STA_DISCONNECTED") /\ retry_count = WIFI_RETRY_COUNT)
    /\ ("FAIL" \in event_bits' /\ "FAIL" \notin event_bits)
          => (Handles("STA_DISCONNECTED") /\ retry_count = WIFI_RETRY_COUNT)
    /\ Handles("GOT_IP")
          => (retry_count' = 0 /\ current_status' = "CONNECTED")
    /\ (retry_count' > retry_count)
          => (Handles("STA_DISCONNECTED") /\ retry_count' = retry_count + 1)

\* C35: in every reachable state 0 <= retry_count <= WIFI_RETRY_COUNT; on a
\* disconnect event the handler starts a new connection attempt and
\* increments retry_count while retry_count < WIFI_RETRY_COUNT; the status
\* becomes ERROR, and the fail bit is set, only on a disconnect event
\* received with retry_count = WIFI_RETRY_COUNT; a got-IP event resets
\* retry_count to 0 and sets the status CONNECTED.
C35_RetryBound ==
    /\ [](retry_count \in 0..WIFI_RETRY_COUNT)
    /\ [][RetryCounting]_vars

\* the disconnect event after the last retry has been handled
C35_Witness ==
    /\ retry_count = WIFI_RETRY_COUNT
    /\ current_status = "ERROR"
    /\ "FAIL" \in event_bits
    /\ link = "down"

\* the cycles since the one that detected the disconnection, which is the
\* first of the run of cycles that found WiFi not ready
CyclesSinceDetection == not_ready_run - 1

\* C36: while WiFi stays not ready, wifi_task requests a reconnection on
\* exactly every second cycle: on the even cycle numbers if no cycle has
\* found WiFi ready yet, on the even, positive numbers of cycles since the
\* detected disconnection otherwise; and a cycle that starts with WiFi not
\* ready never calls wifi_manager_send_data.
C36_ReconnectionCadence ==
    (wt_pc = "loop" /\ transmission_count > 0 /\ ~cycle_ready) =>
        /\ ~send_called
        /\ reconnect_called <=>
              IF ~seen_ready THEN transmission_count % 2 = 0
              ELSE CyclesSinceDetection % 2 = 0 /\ CyclesSinceDetection > 0

\* the second request after a disconnection that was detected
C36_Witness ==
    /\ seen_ready
    /\ ~cycle_ready
    /\ CyclesSinceDetection = 4
    /\ reconnect_called
    /\ transmission_count % 2 = 1

\* the sensor task is inside safe_write_sensor_data only with a reading that
\* dht11_read returned fresh, and a valid shared reading is one it wrote
WritesOnlyFreshReadings ==
    /\ (sensor_pc \in {"write_take", "write_cs"})
          => (read_result = "ESP_OK" /\ sensor_reading.valid)
    /\ (mutex # "sensor" /\ shared_data.data.valid)
          => (<<shared_data.data.temperature, shared_data.data.humidity>>
                 \in written)

\* the transmission of a cycle that read a valid shared reading under the
\* mutex carries that reading and no sentinel
SentWhatWasShared ==
    (wifi_pc = "delay" /\ wifi_outcome = "valid")
        => /\ <<wifi_data.temperature, wifi_data.humidity>> \in written
           /\ wifi_data.temperature # NO_DATA_SENTINEL
           /\ wifi_data.humidity # NO_DATA_SENTINEL

\* wifi_task leaves safe_read_sensor_data with the mutex taken: a valid
\* shared reading is what it goes on to send
ReadsSharedReading ==
    (wifi_pc = "cs" /\ wifi_pc' = "send" /\ shared_data.data.valid)
        => /\ has_valid_data'
           /\ wifi_outcome' = "valid"
           /\ wifi_data' = [temperature |-> shared_data.data.temperature,
                            humidity |-> shared_data.data.humidity]

\* the step of esp_restart()
RestartStep == sensor_pc = "esp_restart" /\ sensor_pc' = "none"

\* the shared valid flag is not cleared
ValidFlagStays == shared_data.data.valid => shared_data'.data.valid

ValidFlagStaysUntilRestart == (~RestartStep) => ValidFlagStays

\* C37 as stated: the sensor task writes the shared reading only in cycles
\* where dht11_read returned a fresh reading with valid = true, the shared
\* valid flag, once true, never becomes false again, and from then on every
\* cycle of the WiFi task that acquires the mutex transmits the shared
\* reading and not the sentinel.
C37_ValidFlagNeverCleared_AsStated ==
    /\ [](WritesOnlyFreshReadings /\ SentWhatWasShared)
    /\ [][ReadsSharedReading]_vars
    /\ [][ValidFlagStays]_vars

\* C37 amended: as above, with the shared valid flag staying true until the
\* system restarts: esp_restart, which the sensor task calls after
\* SENSOR_RESTART_COUNT_LIMIT consecutive failures, clears the shared data.
C37_ValidFlagStaysUntilRestart ==
    /\ [](WritesOnlyFreshReadings /\ SentWhatWasShared)
    /\ [][ReadsSharedReading]_vars
    /\ [][ValidFlagStaysUntilRestart]_vars

\* the sensor has failed up to the error screen, the shared reading is
\* still the last fresh one and the WiFi task has just sent it
C37_Witness ==
    /\ consecutive_failures >= SENSOR_FAILURE_COUNT_LIMIT
    /\ error_displayed
    /\ shared_data.data.valid
    /\ wifi_pc = "delay"
    /\ wifi_outcome = "valid"
    /\ wifi_data = [temperature |-> shared_data.data.temperature,
                    humidity |-> shared_data.data.humidity]

\* what dht11_read gave the cycle under evaluation
StaleReading == read_result = "ESP_OK" /\ ~sensor_reading.valid
NoDataAvailable == read_result = "ESP_FAIL"
FreshReading == read_result = "ESP_OK" /\ sensor_reading.valid

\* the step of sensor_task that looks at read_result and sensor_reading
EvaluateStep == sensor_pc = "evaluate" /\ sensor_pc' # "evaluate"

\* a stale reading and a missing one both add one to the counter and lead
\* to the same thresholds; the counter goes down in a cycle with a fresh
\* reading and in no other (a restart starts the task anew)
StaleCountsAsFailure ==
    /\ (EvaluateStep /\ (StaleReading \/ NoDataAvailable))
          => /\ consecutive_failures' = consecutive_failures + 1
             /\ sensor_pc' \notin {"write_take", "write_cs"}
             /\ (consecutive_failures' >= SENSOR_RESTART_COUNT_LIMIT)
                   <=> (sensor_pc' = "restart_warning")
             /\ (consecutive_failures' = SENSOR_FAILURE_COUNT_LIMIT)
                   => (display' = SensorErrorScreen /\ error_displayed')
    /\ (EvaluateStep /\ FreshReading) => (consecutive_failures' = 0)
    /\ (consecutive_failures' < consecutive_failures)
          => ((EvaluateStep /\ FreshReading) \/ RestartStep)

\* a run of failed cycles made of stale readings only: the cache has been
\* valid since before the run began
StaleOnlyRun == fail_streak > 0 /\ last_reading.valid

\* C38: a cycle of sensor_task in which dht11_read succeeds with a stale
\* cached reading (ESP_OK, valid = false) adds one to consecutive_failures
\* exactly as a cycle with ESP_FAIL does, so a run of stale-only cycles
\* reaches the warn and the restart thresholds; only a cycle with a fresh
\* reading (valid = true) resets the counter.
C38_StaleCountsAsFailure ==
    /\ []((StaleOnlyRun /\ sensor_pc # "evaluate")
             => (consecutive_failures = fail_streak))
    /\ [][StaleCountsAsFailure]_vars

\* six stale readings in a row have brought the task to the restart
C38_Witness ==
    /\ sensor_pc = "restart_warning"
    /\ StaleReading
    /\ StaleOnlyRun
    /\ fail_streak = SENSOR_RESTART_COUNT_LIMIT
    /\ consecutive_failures = SENSOR_RESTART_COUNT_LIMIT

\* the two task delays of dht11_read: vTaskDelay before an attempt's
\* critical section and vTaskDelay between two attempts
DelayPositions == {"stabilize", "retry_delay"}

\* the step that issues portDISABLE_INTERRUPTS(), and the steps that issue
\* portENABLE_INTERRUPTS(): the ones that leave the critical section
DisableStep == pc = "irq_off" /\ pc' = "start_low"
EnableStep == pc \in CriticalPositions /\ pc' \notin CriticalPositions

\* a disable is issued with interrupts enabled, an enable with interrupts
\* disabled, and nothing else changes the interrupt state
DisableEnableAlternate ==
    /\ DisableStep => (irq_enabled /\ ~irq_enabled')
    /\ EnableStep => (~irq_enabled /\ irq_enabled')
    /\ (irq_enabled' # irq_enabled) => (DisableStep \/ EnableStep)

\* C39: the stabilization delay and the delay between attempts are executed
\* only while interrupts are enabled, and over any sequence of attempts
\* interrupt-disable and interrupt-enable strictly alternate: a disable is
\* never issued while a previous attempt has left interrupts disabled.
C39_NoDelayInCriticalSection ==
    /\ [](pc \in DelayPositions => irq_enabled)
    /\ [][DisableEnableAlternate]_vars

\* the stabilization delay of the third attempt, after two failed ones
C39_Witness ==
    /\ pc = "stabilize"
    /\ attempt = DHT11_MAX_RETRIES
    /\ n_attempts = DHT11_MAX_RETRIES
    /\ last_fail # None
    /\ irq_enabled

====
